---------------------------- MODULE Spec2Model ----------------------------
(***************************************************************************)
(* A model of the agrivoltaic dashboard (src/agrivoltaic_dashboard.py):    *)
(* the table loader, the column classifiers, the hour and month            *)
(* aggregations and the twelve chart callbacks with their failure          *)
(* handlers, over the process-wide table merged_df; and of the nutrition   *)
(* dashboard (src/app.py): its two filters and its three chart callbacks.  *)
(***************************************************************************)
EXTENDS Integers, Sequences, FiniteSets, TLC

VARIABLES
    pc,         \* "import" before load_data has run, "serving" after; "classify"/"classified" in SpecClassify
    build,      \* the installed pandas: [observed |-> default of groupby(observed=...)]
    file,       \* Data/Processed/merged.csv as found on disk
    merged_df,  \* the module-level table
    tab,        \* value of the main-tabs component
    content,    \* children of tab-content: [view, slots], the view rendered and its chart ids
    result,     \* what the last callback (or load_data) handed back to its caller
    name,       \* input of the classifiers (a string, as a sequence of characters)
    tags,       \* [plot, sensor]: what classify_plot and get_sensor_type returned for name
    year_filter,    \* app.py: value of the year-filter dropdown
    region_filter,  \* app.py: value of the region-filter dropdown
    figures     \* app.py: per chart id, the argument and the traces of the figure last returned

vars == <<pc, build, file, merged_df, tab, content, result, name, tags,
          year_filter, region_filter, figures>>

-----------------------------------------------------------------------------
(* Bounds of the model.                                                    *)

\* most rows of merged.csv in the files of Spec
MaxRows == 2

\* most rows of merged.csv in the files of SpecAgg
MaxAggRows == 3

\* most vocabulary pieces concatenated into a classifier input
MaxPieces == 2

-----------------------------------------------------------------------------
(* Strings as sequences of characters, and Python's `t in s`.              *)

Contains(s, t) ==
    \E i \in 1..(Len(s) - Len(t) + 1) : SubSeq(s, i, i + Len(t) - 1) = t

-----------------------------------------------------------------------------
(* Column names.  A table holds its column names as strings; Chars gives   *)
(* the characters of each name the modelled files use and of each string   *)
(* literal the code looks for in a name.                                   *)

ColumnNames ==
    {"DATE", "TIME", "Month",
     "Hour", "timestamp", "Timestamp",
     "WS/P (mm)", "Rainfall (mm)", "AG-PV P1/T (oC)",
     "AG-SS P1/T (oC)", "AO-TI P2/T (oC)", "AO-SS P1/T (oC)",
     "AG-PV P3/T (oC)", "PO-PV/T (oC)", "AG-SS P1/RH (%)",
     "AO-TI P2/RH (%)", "AO-SS P1/RH (%)", "AG-TI P1/RH (%)",
     "AG-PV P1/Irr (W/m2)", "PO-PV/Irr (W/m2)", "AG-PV P3/Irr (W/m2)",
     "PO-PV/Irr (W/m2) ", "Notes"}

Chars(n) ==
    CASE n = "DATE" ->
            <<"D", "A", "T", "E">>
      [] n = "TIME" ->
            <<"T", "I", "M", "E">>
      [] n = "Month" ->
            <<"M", "o", "n", "t", "h">>
      [] n = "Hour" ->
            <<"H", "o", "u", "r">>
      [] n = "timestamp" ->
            <<"t", "i", "m", "e", "s", "t", "a", "m", "p">>
      [] n = "Timestamp" ->
            <<"T", "i", "m", "e", "s", "t", "a", "m", "p">>
      [] n = "WS/P (mm)" ->
            <<"W", "S", "/", "P", " ", "(", "m", "m", ")">>
      [] n = "Rainfall (mm)" ->
            <<"R", "a", "i", "n", "f", "a", "l", "l", " ", "(", "m", "m", ")">>
      [] n = "AG-PV P1/T (oC)" ->
            <<"A", "G", "-", "P", "V", " ", "P", "1", "/", "T", " ", "(", "o", "C", ")">>
      [] n = "AG-SS P1/T (oC)" ->
            <<"A", "G", "-", "S", "S", " ", "P", "1", "/", "T", " ", "(", "o", "C", ")">>
      [] n = "AO-TI P2/T (oC)" ->
            <<"A", "O", "-", "T", "I", " ", "P", "2", "/", "T", " ", "(", "o", "C", ")">>
      [] n = "AO-SS P1/T (oC)" ->
            <<"A", "O", "-", "S", "S", " ", "P", "1", "/", "T", " ", "(", "o", "C", ")">>
      [] n = "AG-PV P3/T (oC)" ->
            <<"A", "G", "-", "P", "V", " ", "P", "3", "/", "T", " ", "(", "o", "C", ")">>
      [] n = "PO-PV/T (oC)" ->
            <<"P", "O", "-", "P", "V", "/", "T", " ", "(", "o", "C", ")">>
      [] n = "AG-SS P1/RH (%)" ->
            <<"A", "G", "-", "S", "S", " ", "P", "1", "/", "R", "H", " ", "(", "%", ")">>
      [] n = "AO-TI P2/RH (%)" ->
            <<"A", "O", "-", "T", "I", " ", "P", "2", "/", "R", "H", " ", "(", "%", ")">>
      [] n = "AO-SS P1/RH (%)" ->
            <<"A", "O", "-", "S", "S", " ", "P", "1", "/", "R", "H", " ", "(", "%", ")">>
      [] n = "AG-TI P1/RH (%)" ->
            <<"A", "G", "-", "T", "I", " ", "P", "1", "/", "R", "H", " ", "(", "%", ")">>
      [] n = "AG-PV P1/Irr (W/m2)" ->
            <<"A", "G", "-", "P", "V", " ", "P", "1", "/", "I", "r", "r", " ", "(", "W", "/", "m", "2", ")">>
      [] n = "PO-PV/Irr (W/m2)" ->
            <<"P", "O", "-", "P", "V", "/", "I", "r", "r", " ", "(", "W", "/", "m", "2", ")">>
      [] n = "AG-PV P3/Irr (W/m2)" ->
            <<"A", "G", "-", "P", "V", " ", "P", "3", "/", "I", "r", "r", " ", "(", "W", "/", "m", "2", ")">>
      [] n = "PO-PV/Irr (W/m2) " ->
            <<"P", "O", "-", "P", "V", "/", "I", "r", "r", " ", "(", "W", "/", "m", "2", ")", " ">>
      [] n = "Notes" ->
            <<"N", "o", "t", "e", "s">>
      [] n = "AG-PV" ->
            <<"A", "G", "-", "P", "V">>
      [] n = "AG-TI" ->
            <<"A", "G", "-", "T", "I">>
      [] n = "AG-SS" ->
            <<"A", "G", "-", "S", "S">>
      [] n = "AO-TI" ->
            <<"A", "O", "-", "T", "I">>
      [] n = "AO-SS" ->
            <<"A", "O", "-", "S", "S">>
      [] n = "PO-PV" ->
            <<"P", "O", "-", "P", "V">>
      [] n = "WS" ->
            <<"W", "S">>
      [] n = "Irr" ->
            <<"I", "r", "r">>
      [] n = "/T" ->
            <<"/", "T">>
      [] n = "/RH" ->
            <<"/", "R", "H">>
      [] n = "/P" ->
            <<"/", "P">>
      [] OTHER -> <<>>

\* the name whose characters are cs
FromChars(cs) == CHOOSE n \in ColumnNames : Chars(n) = cs

\* str.lower() of one character
LowerChar(c) ==
    CASE c = "A" -> "a"
      [] c = "C" -> "c"
      [] c = "D" -> "d"
      [] c = "E" -> "e"
      [] c = "G" -> "g"
      [] c = "H" -> "h"
      [] c = "I" -> "i"
      [] c = "M" -> "m"
      [] c = "N" -> "n"
      [] c = "O" -> "o"
      [] c = "P" -> "p"
      [] c = "R" -> "r"
      [] c = "S" -> "s"
      [] c = "T" -> "t"
      [] c = "V" -> "v"
      [] c = "W" -> "w"
      [] OTHER -> c

lower(cs) == [i \in 1..Len(cs) |-> LowerChar(cs[i])]

RECURSIVE lstrip(_)
lstrip(cs) == IF cs # <<>> /\ Head(cs) = " " THEN lstrip(Tail(cs)) ELSE cs

RECURSIVE rstrip(_)
rstrip(cs) ==
    IF cs # <<>> /\ cs[Len(cs)] = " " THEN rstrip(SubSeq(cs, 1, Len(cs) - 1)) ELSE cs

\* str.strip() of a column name
strip(n) == FromChars(lstrip(rstrip(Chars(n))))

-----------------------------------------------------------------------------
(* The column classifiers (defined inside update_environmental_chart).     *)

\* a classify_plot whose Control test comes before the Agrivoltaic test
classify_plot_ControlFirst(col_name) ==
    IF Contains(col_name, Chars("AO-TI")) \/ Contains(col_name, Chars("AO-SS"))
    THEN "Control"
    ELSE IF \/ Contains(col_name, Chars("AG-PV"))
            \/ Contains(col_name, Chars("AG-TI"))
            \/ Contains(col_name, Chars("AG-SS"))
    THEN "Agrivoltaic"
    ELSE IF Contains(col_name, Chars("PO-PV"))
    THEN "Ground PV"
    ELSE IF Contains(col_name, Chars("WS"))
    THEN "Weather Station"
    ELSE "Other"

classify_plot(col_name) ==
    IF \/ Contains(col_name, Chars("AG-PV"))
       \/ Contains(col_name, Chars("AG-TI"))
       \/ Contains(col_name, Chars("AG-SS"))
    THEN "Agrivoltaic"
    ELSE IF Contains(col_name, Chars("AO-TI")) \/ Contains(col_name, Chars("AO-SS"))
    THEN "Control"
    ELSE IF Contains(col_name, Chars("PO-PV"))
    THEN "Ground PV"
    ELSE IF Contains(col_name, Chars("WS"))
    THEN "Weather Station"
    ELSE "Other"

\* a get_sensor_type without its final else: falls off the end and returns None
get_sensor_type_NoElse(sensor) ==
    IF Contains(sensor, Chars("Irr"))
    THEN "Irradiation"
    ELSE IF Contains(sensor, Chars("/T"))
    THEN "Temperature"
    ELSE IF Contains(sensor, Chars("/RH"))
    THEN "Humidity"
    ELSE IF Contains(sensor, Chars("/P"))
    THEN "Rainfall"
    ELSE "None"

get_sensor_type(sensor) ==
    IF Contains(sensor, Chars("Irr"))
    THEN "Irradiation"
    ELSE IF Contains(sensor, Chars("/T"))
    THEN "Temperature"
    ELSE IF Contains(sensor, Chars("/RH"))
    THEN "Humidity"
    ELSE IF Contains(sensor, Chars("/P"))
    THEN "Rainfall"
    ELSE "Other"

-----------------------------------------------------------------------------
(* Cells of a table.  k is the kind of value: "num" a number n/d (d = 1    *)
(* for the values read from the file, a reduced fraction for a mean),      *)
(* "nan" pandas' missing value (NaN or NaT), "str" a Python string s,      *)
(* "dt" a timestamp parsed from the text s.                                *)

Num(n) == [k |-> "num", n |-> n, d |-> 1, s |-> ""]

NaN == [k |-> "nan", n |-> 0, d |-> 1, s |-> ""]

Str(s) == [k |-> "str", n |-> 0, d |-> 1, s |-> s]

Dt(s) == [k |-> "dt", n |-> 0, d |-> 1, s |-> s]

IsNull(c) == c.k = "nan"

RECURSIVE Gcd(_, _)
Gcd(a, b) == IF b = 0 THEN a ELSE Gcd(b, a % b)

\* the number n/d in lowest terms (n >= 0, d > 0)
Frac(n, d) == [k |-> "num", n |-> n \div Gcd(n, d), d |-> d \div Gcd(n, d), s |-> ""]

-----------------------------------------------------------------------------
(* Date and time texts.  Fields gives the numbers a text is made of (its   *)
(* lexing), and none for a text that is no date or time at all; whether    *)
(* the numbers form a timestamp is decided by Parseable.  A text with a    *)
(* time only is given the day the process runs on.                         *)

NoFields == [lex |-> FALSE, yy |-> 0, mo |-> 0, dd |-> 0, hh |-> 0, mi |-> 0]

Fields(s) ==
    CASE s = "2023-05-14" -> [lex |-> TRUE, yy |-> 2023, mo |-> 5, dd |-> 14, hh |-> 0, mi |-> 0]
      [] s = "2023-06-02" -> [lex |-> TRUE, yy |-> 2023, mo |-> 6, dd |-> 2, hh |-> 0, mi |-> 0]
      [] s = "2023-10-09" -> [lex |-> TRUE, yy |-> 2023, mo |-> 10, dd |-> 9, hh |-> 0, mi |-> 0]
      [] s = "2023-09-21" -> [lex |-> TRUE, yy |-> 2023, mo |-> 9, dd |-> 21, hh |-> 0, mi |-> 0]
      [] s = "2023-13-45" -> [lex |-> TRUE, yy |-> 2023, mo |-> 13, dd |-> 45, hh |-> 0, mi |-> 0]
      [] s = "05:10:00" -> [lex |-> TRUE, yy |-> 2026, mo |-> 1, dd |-> 1, hh |-> 5, mi |-> 10]
      [] s = "06:40:00" -> [lex |-> TRUE, yy |-> 2026, mo |-> 1, dd |-> 1, hh |-> 6, mi |-> 40]
      [] s = "23:59:00" -> [lex |-> TRUE, yy |-> 2026, mo |-> 1, dd |-> 1, hh |-> 23, mi |-> 59]
      [] s = "24:30:00" -> [lex |-> TRUE, yy |-> 2026, mo |-> 1, dd |-> 1, hh |-> 24, mi |-> 30]
      [] s = "2023-05-14 05:10:00" -> [lex |-> TRUE, yy |-> 2023, mo |-> 5, dd |-> 14, hh |-> 5, mi |-> 10]
      [] s = "2023-06-02 06:40:00" -> [lex |-> TRUE, yy |-> 2023, mo |-> 6, dd |-> 2, hh |-> 6, mi |-> 40]
      [] s = "1970-01-01 00:00:00" -> [lex |-> TRUE, yy |-> 1970, mo |-> 1, dd |-> 1, hh |-> 0, mi |-> 0]
      [] OTHER -> NoFields

Parseable(s) ==
    LET f == Fields(s)
    IN  f.lex /\ f.mo \in 1..12 /\ f.dd \in 1..31 /\ f.hh \in 0..23 /\ f.mi \in 0..59

\* pd.to_datetime on one value: [exc, v].  A number is nanoseconds since the epoch.
to_datetime_value(c, coerce) ==
    CASE c.k = "nan" -> [exc |-> "", v |-> NaN]
      [] c.k = "dt" -> [exc |-> "", v |-> c]
      [] c.k = "num" -> [exc |-> "", v |-> Dt("1970-01-01 00:00:00")]
      [] OTHER ->
            IF Parseable(c.s) THEN [exc |-> "", v |-> Dt(c.s)]
            ELSE IF coerce THEN [exc |-> "", v |-> NaN]
            ELSE [exc |-> "ValueError", v |-> NaN]

\* Series.dt.hour of one value
dt_hour(c) == IF c.k = "dt" THEN Num(Fields(c.s).hh) ELSE NaN

MonthNames ==
    <<"January", "February", "March", "April", "May", "June", "July",
      "August", "September", "October", "November", "December">>

\* Series.dt.strftime('%B') of one value
dt_strftime_B(c) == IF c.k = "dt" THEN Str(MonthNames[Fields(c.s).mo]) ELSE NaN

month_order_WithSeptember == <<"May", "June", "July", "August", "September", "October">>

month_order == <<"May", "June", "July", "August", "October">>

\* pd.Categorical(values, categories=month_order, ordered=True) on one value:
\* a value outside the categories becomes missing
Categorical_value(c) ==
    IF c.k = "str" /\ \E i \in 1..Len(month_order) : month_order[i] = c.s THEN c ELSE NaN

-----------------------------------------------------------------------------
(* Tables: the column names in order, one dtype per column and the rows,   *)
(* each a sequence of cells in column order.                               *)

EmptyDataFrame == [columns |-> <<>>, dtypes |-> <<>>, rows |-> <<>>]

\* an emptiness test that looks at the columns only
IsEmpty_NoColumns(df) == Len(df.columns) = 0

\* DataFrame.empty: any axis of length 0
IsEmpty(df) == Len(df.columns) = 0 \/ Len(df.rows) = 0

HasColumn(df, c) == \E i \in 1..Len(df.columns) : df.columns[i] = c

ColIndex(df, c) ==
    CHOOSE i \in 1..Len(df.columns) :
        df.columns[i] = c /\ \A j \in 1..(i - 1) : df.columns[j] # c

\* df[c] as the sequence of its cells (c is a column of df)
Column(df, c) == [r \in 1..Len(df.rows) |-> df.rows[r][ColIndex(df, c)]]

Dtype(df, c) == df.dtypes[ColIndex(df, c)]

\* df[c] = vals: replaces the column in place, or appends it as the last column
SetColumn(df, c, vals, dtype) ==
    IF HasColumn(df, c)
    THEN LET i == ColIndex(df, c)
         IN  [df EXCEPT !.dtypes[i] = dtype,
                        !.rows = [r \in 1..Len(df.rows) |-> [df.rows[r] EXCEPT ![i] = vals[r]]]]
    ELSE [columns |-> Append(df.columns, c),
          dtypes |-> Append(df.dtypes, dtype),
          rows |-> [r \in 1..Len(df.rows) |-> Append(df.rows[r], vals[r])]]

\* the dtype read_csv infers for a column: numbers and blanks give float64
InferDtype(cells) ==
    IF \A r \in 1..Len(cells) : cells[r].k \in {"num", "nan"} THEN "float64" ELSE "object"

is_numeric_dtype(t) == t = "float64"

-----------------------------------------------------------------------------
(* Exceptions.  A computation that can raise is a record whose exc field   *)
(* is "" when it finished and the class of the exception otherwise.        *)

\* the classes that derive from Exception, among those raised here
ExceptionClasses ==
    {"FileNotFoundError", "PermissionError", "ParserError", "ValueError", "KeyError",
     "TypeError", "AttributeError"}

\* a handler that only expects the file to be missing or a column to be absent
except_OnlyLookupErrors(exc) == exc \in {"FileNotFoundError", "KeyError"}

\* `except Exception as e`: does the clause catch exc
except_Exception(exc) == exc \in ExceptionClasses

-----------------------------------------------------------------------------
(* load_data                                                               *)

\* pd.read_csv(all_data_filename): [exc, df]
read_csv(f) ==
    CASE f.status = "missing" -> [exc |-> "FileNotFoundError", df |-> EmptyDataFrame]
      [] f.status = "unreadable" -> [exc |-> "PermissionError", df |-> EmptyDataFrame]
      [] f.status = "unparseable" -> [exc |-> "ParserError", df |-> EmptyDataFrame]
      [] OTHER ->
            [exc |-> "",
             df |-> [columns |-> f.columns,
                     dtypes |-> [i \in 1..Len(f.columns) |->
                                    InferDtype([r \in 1..Len(f.rows) |-> f.rows[r][i]])],
                     rows |-> f.rows]]

\* pd.to_datetime on a column: [exc, vals]
to_datetime(cells, coerce) ==
    [exc |-> IF \E r \in 1..Len(cells) : to_datetime_value(cells[r], coerce).exc # ""
             THEN "ValueError" ELSE "",
     vals |-> [r \in 1..Len(cells) |-> to_datetime_value(cells[r], coerce).v]]

Categorical(cells) == [r \in 1..Len(cells) |-> Categorical_value(cells[r])]

\* Step 1: DATE to datetime, errors='coerce'
load_DATE(df) ==
    IF HasColumn(df, "DATE")
    THEN SetColumn(df, "DATE", to_datetime(Column(df, "DATE"), TRUE).vals, "datetime64")
    ELSE df

\* Step 2: ordered categorical months
load_Month(df) ==
    IF HasColumn(df, "Month")
    THEN SetColumn(df, "Month", Categorical(Column(df, "Month")), "category")
    ELSE df

\* the column of the last conversion: timestamp, or else Timestamp, or none
TimestampColumn(df) ==
    IF HasColumn(df, "timestamp") THEN "timestamp"
    ELSE IF HasColumn(df, "Timestamp") THEN "Timestamp"
    ELSE ""

\* df[c] = conv.vals, unless the conversion raised: [exc, df]
AssignDatetime(df, c, conv) ==
    IF conv.exc # "" THEN [exc |-> conv.exc, df |-> df]
    ELSE [exc |-> "", df |-> SetColumn(df, c, conv.vals, "datetime64")]

\* timestamp (or else Timestamp) to datetime, errors='raise'
load_timestamp(df) ==
    IF TimestampColumn(df) = "" THEN [exc |-> "", df |-> df]
    ELSE AssignDatetime(df, TimestampColumn(df),
                        to_datetime(Column(df, TimestampColumn(df)), FALSE))

\* the try block after read_csv
load_after_read(read) ==
    IF read.exc # "" THEN [exc |-> read.exc, df |-> EmptyDataFrame]
    ELSE load_timestamp(load_Month(load_DATE(read.df)))

\* the body of load_data's try block: [exc, df]
load_data_try(f) == load_after_read(read_csv(f))

\* load_data's except branch: [exc, df, printed]; exc is the exception that
\* reaches the caller, if any, printed the one the except branch printed
load_data_except(body) ==
    IF body.exc = "" THEN [exc |-> "", df |-> body.df, printed |-> ""]
    ELSE IF except_Exception(body.exc)
    THEN [exc |-> "", df |-> EmptyDataFrame, printed |-> body.exc]
    ELSE [exc |-> body.exc, df |-> EmptyDataFrame, printed |-> ""]

load_data(f) == load_data_except(load_data_try(f))

-----------------------------------------------------------------------------
(* The aggregation: groupby(key)[cols].mean(numeric_only=True)             *)
(* .reset_index(), the renaming of its columns and melt.                   *)

RECURSIVE SortedNums(_)
\* the numbers of a finite set in ascending order
SortedNums(S) ==
    IF S = {} THEN <<>>
    ELSE LET m == CHOOSE x \in S : \A y \in S : x <= y
         IN  <<m>> \o SortedNums(S \ {m})

\* the non-missing cells of a column, as a set
Present(cells) == {cells[r] : r \in {q \in 1..Len(cells) : ~IsNull(cells[q])}}

\* the categories of the Month column as cells: all of them, or the observed
CategoryKeys(present, observed) ==
    LET Observed(c) == (~observed) \/ c \in present
    IN  SelectSeq([i \in 1..Len(month_order) |-> Str(month_order[i])], Observed)

\* group keys in the order in which the rows first show them (sort=False)
GroupKeys_RowOrder(df, key, observed) ==
    LET cells == Column(df, key)
        first == SelectSeq([r \in 1..Len(cells) |-> r],
                           LAMBDA r : ~IsNull(cells[r]) /\ \A q \in 1..(r - 1) : cells[q] # cells[r])
    IN  [i \in 1..Len(first) |-> cells[first[i]]]

\* the group keys of groupby(key), sort=True, dropna=True: for a categorical
\* key the categories in their order (all of them unless observed), otherwise
\* the distinct non-missing values in ascending order
GroupKeys(df, key, observed) ==
    IF Dtype(df, key) = "category"
    THEN CategoryKeys(Present(Column(df, key)), observed)
    ELSE [i \in 1..Cardinality(Present(Column(df, key))) |->
             Num(SortedNums({c.n : c \in Present(Column(df, key))})[i])]

RECURSIVE SumFrom(_, _, _, _, _)
\* [sum, count] of the non-missing cells of column col over the rows r..end whose key is g
SumFrom(df, keycells, g, col, r) ==
    IF r > Len(df.rows) THEN [sum |-> 0, count |-> 0]
    ELSE LET rest == SumFrom(df, keycells, g, col, r + 1)
         IN  IF keycells[r] = g /\ ~IsNull(df.rows[r][col])
             THEN [sum |-> rest.sum + df.rows[r][col].n, count |-> rest.count + 1]
             ELSE rest

\* sum / count, NaN when nothing contributes
MeanOf(t) == IF t.count = 0 THEN NaN ELSE Frac(t.sum, t.count)

\* a mean that counts a missing cell as a zero
GroupMean_NaNAsZero(df, keycells, g, col) ==
    MeanOf([sum |-> SumFrom(df, keycells, g, col, 1).sum,
            count |-> Cardinality({r \in 1..Len(df.rows) : keycells[r] = g})])

\* the mean of one group of one column, skipna
GroupMean(df, keycells, g, col) == MeanOf(SumFrom(df, keycells, g, col, 1))

\* df[cols]: the names of cols that are no column of df ("Columns not found")
MissingColumns(df, cols) == {cols[i] : i \in {j \in 1..Len(cols) : ~HasColumn(df, cols[j])}}

\* the grouped table: the key column and one column of means per kept name
GroupedFrame(df, key, kept, keys, keycells) ==
    [columns |-> <<key>> \o kept,
     dtypes |-> <<Dtype(df, key)>> \o [i \in 1..Len(kept) |-> "float64"],
     rows |-> [g \in 1..Len(keys) |->
                 <<keys[g]>> \o
                 [i \in 1..Len(kept) |->
                     GroupMean(df, keycells, keys[g], ColIndex(df, kept[i]))]]]

\* the selected columns of a numeric dtype, in the order of the table
NumericOnly_TableOrder(df, cols) ==
    LET Selected(c) == (\E i \in 1..Len(cols) : cols[i] = c) /\ is_numeric_dtype(Dtype(df, c))
    IN  SelectSeq(df.columns, Selected)

\* numeric_only=True: the selected columns of a numeric dtype, in order
NumericOnly(df, cols) ==
    LET IsNumeric(c) == is_numeric_dtype(Dtype(df, c))
    IN  SelectSeq(cols, IsNumeric)

\* df.groupby(key)[cols].mean(numeric_only=True).reset_index(): [exc, df]
groupby_mean(df, key, cols, observed) ==
    IF ~HasColumn(df, key) \/ MissingColumns(df, cols) # {}
    THEN [exc |-> "KeyError", df |-> EmptyDataFrame]
    ELSE [exc |-> "",
          df |-> GroupedFrame(df, key, NumericOnly(df, cols), GroupKeys(df, key, observed),
                              Column(df, key))]

\* df.columns = names: [exc, df]; a length mismatch is a ValueError
set_columns(df, names) ==
    IF Len(names) # Len(df.columns) THEN [exc |-> "ValueError", df |-> df]
    ELSE [exc |-> "", df |-> [df EXCEPT !.columns = names]]

RECURSIVE Flatten(_, _)
\* the concatenation of the sequences seqs[i], seqs[i+1], ...
Flatten(seqs, i) == IF i > Len(seqs) THEN <<>> ELSE seqs[i] \o Flatten(seqs, i + 1)

\* the long-form row of row r and value column c of a grouped table
LongRow(df, r, c) ==
    [group |-> df.rows[r][1], series |-> df.columns[c + 1], value |-> df.rows[r][c + 1]]

\* a melt that leaves out the rows whose value is missing
melt_DropMissing(df) ==
    LET NotNull(row) == ~IsNull(row.value)
    IN  SelectSeq(Flatten([c \in 1..(Len(df.columns) - 1) |->
                              [r \in 1..Len(df.rows) |-> LongRow(df, r, c)]], 1), NotNull)

\* df.melt(id_vars=<first column>): one row per value column and row of df,
\* value column by value column, missing values kept
melt(df) ==
    Flatten([c \in 1..(Len(df.columns) - 1) |->
                [r \in 1..Len(df.rows) |-> LongRow(df, r, c)]], 1)

\* the renamed grouped table to long form, or the exception of the renaming
melt_renamed(df, renamed) ==
    IF renamed.exc # "" THEN [exc |-> renamed.exc, df |-> df, rows |-> <<>>]
    ELSE [exc |-> "", df |-> df, rows |-> melt(renamed.df)]

\* the grouped table renamed, or the exception of the grouping
rename_grouped(df, grouped, names) ==
    IF grouped.exc # "" THEN [exc |-> grouped.exc, df |-> df, rows |-> <<>>]
    ELSE melt_renamed(df, set_columns(grouped.df, names))

\* group by key, mean of cols, rename to labels, long form: [exc, df, rows];
\* df is the table, which these steps read and do not write
aggregate(df, key, cols, labels, observed) ==
    rename_grouped(df, groupby_mean(df, key, cols, observed), <<key>> \o labels)

-----------------------------------------------------------------------------
(* What a callback hands back.  kind is "chart" for the chart built from   *)
(* the table, "nodata" for the placeholder of an empty table, "error" for  *)
(* the placeholder of the except branch, "raised" when an exception leaves *)
(* the function; name is the text of the placeholder, rows the long-form   *)
(* rows bound to the chart, printed the exception the handler printed.     *)

NoResult == [op |-> "", kind |-> "", name |-> "", rows |-> <<>>, printed |-> ""]

\* a callback whose body is not wrapped in try/except
callback_NoTry(op, df, body, nodata, error) ==
    IF IsEmpty(df)
    THEN [df |-> df,
          result |-> [op |-> op, kind |-> "nodata", name |-> nodata, rows |-> <<>>,
                      printed |-> ""]]
    ELSE IF body.exc = ""
    THEN [df |-> body.df,
          result |-> [op |-> op, kind |-> "chart", name |-> "", rows |-> body.rows,
                      printed |-> ""]]
    ELSE [df |-> body.df,
          result |-> [op |-> op, kind |-> "raised", name |-> "", rows |-> <<>>,
                      printed |-> body.exc]]

\* the frame of every chart callback: the empty-table test, the try block
\* (body: [exc, df, rows], evaluated on the current table) and the except
\* branch.  Gives [df, result]: the table afterwards and what is returned.
callback(op, df, body, nodata, error) ==
    IF IsEmpty(df)
    THEN [df |-> df,
          result |-> [op |-> op, kind |-> "nodata", name |-> nodata, rows |-> <<>>,
                      printed |-> ""]]
    ELSE IF body.exc = ""
    THEN [df |-> body.df,
          result |-> [op |-> op, kind |-> "chart", name |-> "", rows |-> body.rows,
                      printed |-> ""]]
    ELSE IF except_Exception(body.exc)
    THEN [df |-> body.df,
          result |-> [op |-> op, kind |-> "error", name |-> error, rows |-> <<>>,
                      printed |-> body.exc]]
    ELSE [df |-> body.df,
          result |-> [op |-> op, kind |-> "raised", name |-> "", rows |-> <<>>,
                      printed |-> body.exc]]

-----------------------------------------------------------------------------
(* The hour and month aggregations.                                        *)

\* merged_df['Hour'] = pd.to_datetime(merged_df['TIME'], errors='coerce').dt.hour
derive_Hour(df) ==
    SetColumn(df, "Hour",
              [r \in 1..Len(df.rows) |-> dt_hour(to_datetime(Column(df, "TIME"), TRUE).vals[r])],
              "float64")

\* the hourly charts with TIME dropped from the table once Hour is derived
hourly_try_DropTIME(df, always, cols, labels, observed) ==
    LET kept(d) == SelectSeq([i \in 1..Len(d.columns) |-> i], LAMBDA i : d.columns[i] # "TIME")
        drop(d, ix) == [columns |-> [j \in 1..Len(ix) |-> d.columns[ix[j]]],
                        dtypes |-> [j \in 1..Len(ix) |-> d.dtypes[ix[j]]],
                        rows |-> [r \in 1..Len(d.rows) |->
                                    [j \in 1..Len(ix) |-> d.rows[r][ix[j]]]]]
        without_TIME(d) == drop(d, kept(d))
    IN  IF always \/ ~HasColumn(df, "Hour")
        THEN IF ~HasColumn(df, "TIME") THEN [exc |-> "KeyError", df |-> df, rows |-> <<>>]
             ELSE aggregate(without_TIME(derive_Hour(df)), "Hour", cols, labels, observed)
        ELSE aggregate(df, "Hour", cols, labels, observed)

\* the try block of the three hourly charts: [exc, df, rows].  always is
\* whether Hour is assigned without looking for the column first.
hourly_try(df, always, cols, labels, observed) ==
    IF always \/ ~HasColumn(df, "Hour")
    THEN IF ~HasColumn(df, "TIME") THEN [exc |-> "KeyError", df |-> df, rows |-> <<>>]
         ELSE aggregate(derive_Hour(df), "Hour", cols, labels, observed)
    ELSE aggregate(df, "Hour", cols, labels, observed)

TemperatureColumns == <<"AG-PV P3/T (oC)", "AO-TI P2/T (oC)", "PO-PV/T (oC)">>

TemperatureLabels == <<"Agrivoltaic", "Control", "Ground-mounted">>

\* Step 1: DATE to datetime if not done
monthly_DATE(df) ==
    IF Dtype(df, "DATE") # "datetime64"
    THEN SetColumn(df, "DATE", to_datetime(Column(df, "DATE"), TRUE).vals, "datetime64")
    ELSE df

\* Step 2: Month from DATE if the column is absent
monthly_Month(df) ==
    IF HasColumn(df, "Month") THEN df
    ELSE SetColumn(df, "Month",
                   [r \in 1..Len(df.rows) |-> dt_strftime_B(Column(df, "DATE")[r])], "object")

\* Step 2: the ordered categorical, assigned on every call
monthly_Categorical(df) ==
    SetColumn(df, "Month", Categorical(Column(df, "Month")), "category")

\* the try block of update_monthly_temperature: [exc, df, rows]
update_monthly_temperature_try(df, observed) ==
    IF ~HasColumn(df, "DATE") THEN [exc |-> "KeyError", df |-> df, rows |-> <<>>]
    ELSE aggregate(monthly_Categorical(monthly_Month(monthly_DATE(df))), "Month",
                   TemperatureColumns, TemperatureLabels, observed)

-----------------------------------------------------------------------------
(* update_rainfall_chart                                                   *)

\* merged_df.index[:100], merged_df.iloc[:100, 0]
SampleRows == 100

\* 'rainfall' in col.lower() or 'rain' in col.lower() or 'p (mm)' in col.lower()
IsRainfallColumn(c) ==
    \/ Contains(lower(Chars(c)), <<"r", "a", "i", "n", "f", "a", "l", "l">>)
    \/ Contains(lower(Chars(c)), <<"r", "a", "i", "n">>)
    \/ Contains(lower(Chars(c)), <<"p", " ", "(", "m", "m", ")">>)

\* Series.dt.to_period('M') of one value, as the number yyyymm
to_period_M(c) == IF c.k = "dt" THEN Num(Fields(c.s).yy * 100 + Fields(c.s).mo) ELSE NaN

\* one row per period key, in order: the sum of col over the rows of the
\* period, missing values skipped, 0 when nothing is left
PeriodRows(df, periods, col, keys) ==
    [g \in 1..Len(keys) |->
        [group |-> Num(keys[g]), series |-> "Monthly Rainfall",
         value |-> Num(SumFrom(df, periods, Num(keys[g]), col, 1).sum)]]

\* df.groupby(df[time_col].dt.to_period('M'))[col].sum().reset_index()
groupby_period_sum(df, periods, col) ==
    PeriodRows(df, periods, ColIndex(df, col), SortedNums({c.n : c \in Present(periods)}))

\* the rainfall column summed per period of the converted time column.  The
\* rain columns of the modelled files hold numbers and blanks only.
rainfall_sum(df, time_col, rainfall_col) ==
    IF ~is_numeric_dtype(Dtype(df, rainfall_col))
    THEN [exc |-> "TypeError", df |-> df, rows |-> <<>>]
    ELSE [exc |-> "", df |-> df,
          rows |-> groupby_period_sum(
                      df, [r \in 1..Len(df.rows) |-> to_period_M(Column(df, time_col)[r])],
                      rainfall_col)]

\* merged_df[time_col] = pd.to_datetime(merged_df[time_col]) and the sum
rainfall_converted(df, time_col, rainfall_col, conv) ==
    IF conv.exc # "" THEN [exc |-> conv.exc, df |-> df, rows |-> <<>>]
    ELSE rainfall_sum(SetColumn(df, time_col, conv.vals, "datetime64"), time_col, rainfall_col)

\* the first values of the first column
rainfall_sample(df) ==
    [exc |-> "", df |-> df,
     rows |-> [r \in 1..(IF Len(df.rows) < SampleRows THEN Len(df.rows) ELSE SampleRows) |->
                  [group |-> Num(r - 1), series |-> "Sample Data", value |-> df.rows[r][1]]]]

\* the branch taken when 'WS/P (mm)' is no column
rainfall_other(df, rainfall_cols, time_col) ==
    IF rainfall_cols # <<>> /\ HasColumn(df, time_col)
    THEN rainfall_converted(df, time_col, rainfall_cols[1],
                            to_datetime(Column(df, time_col), FALSE))
    ELSE rainfall_sample(df)

\* the alternative rainfall columns tried before 'WS/P (mm)'
update_rainfall_chart_try_SumFirst(df, observed) ==
    IF SelectSeq(df.columns, IsRainfallColumn) # <<>>
       /\ (HasColumn(df, "timestamp") \/ HasColumn(df, "Timestamp"))
    THEN rainfall_other(df, SelectSeq(df.columns, IsRainfallColumn),
                        IF HasColumn(df, "timestamp") THEN "timestamp" ELSE "Timestamp")
    ELSE IF HasColumn(df, "WS/P (mm)")
    THEN aggregate(df, "Month", <<"WS/P (mm)">>, <<"Rainfall">>, observed)
    ELSE rainfall_sample(df)

\* the try block of update_rainfall_chart: [exc, df, rows]
update_rainfall_chart_try(df, observed) ==
    IF HasColumn(df, "WS/P (mm)")
    THEN aggregate(df, "Month", <<"WS/P (mm)">>, <<"Rainfall">>, observed)
    ELSE rainfall_other(df, SelectSeq(df.columns, IsRainfallColumn),
                        IF HasColumn(df, "timestamp") THEN "timestamp" ELSE "Timestamp")

-----------------------------------------------------------------------------
(* update_environmental_chart and update_summary_chart                     *)

IdVars == <<"DATE", "TIME", "Month">>

\* plot_types: the plot type of the columns from the third on; a column
\* left out of it gets no Plot_Type in the left merge
Plot_Type(df, c) ==
    IF \E i \in 3..Len(df.columns) : df.columns[i] = c THEN classify_plot(Chars(c)) ELSE ""

\* the group keys with no plot type filtered out
PlotTypeOrder_All == <<"Agrivoltaic", "Control", "Ground PV", "Other", "Weather Station">>

\* sorted group keys of groupby(['Plot_Type', 'Sensor_Type'])
PlotTypeOrder == <<"Agrivoltaic", "Control", "Ground PV">>

SensorTypeOrder == <<"Humidity", "Irradiation", "Other", "Rainfall", "Temperature">>

PlotSensorPairs ==
    Flatten([p \in 1..Len(PlotTypeOrder) |->
                [t \in 1..Len(SensorTypeOrder) |-> <<PlotTypeOrder[p], SensorTypeOrder[t]>>]], 1)

RECURSIVE SumCells(_, _)
\* [sum, count, text] over the cells from position i on: the non-missing
\* numbers, and whether some cell is no number at all
SumCells(cells, i) ==
    IF i > Len(cells) THEN [sum |-> 0, count |-> 0, text |-> FALSE]
    ELSE LET rest == SumCells(cells, i + 1)
         IN  CASE cells[i].k = "nan" -> rest
               [] cells[i].k = "num" ->
                     [sum |-> rest.sum + cells[i].n, count |-> rest.count + 1,
                      text |-> rest.text]
               [] OTHER -> [sum |-> 0, count |-> 0, text |-> TRUE]

\* the melted sensors (every column but the id_vars) of one group, in order
Members(df, p, t) ==
    LET In(c) == /\ \A i \in 1..Len(IdVars) : IdVars[i] # c
                 /\ Plot_Type(df, c) = p
                 /\ get_sensor_type(Chars(c)) = t
    IN  SelectSeq(df.columns, In)

\* the Value cells of a group, sensor by sensor
MemberCells(df, m) == Flatten([i \in 1..Len(m) |-> Column(df, m[i])], 1)

\* the groups that have rows, in key order
EnvGroups(df) ==
    LET HasRows(pt) == Members(df, pt[1], pt[2]) # <<>>
    IN  SelectSeq(PlotSensorPairs, HasRows)

\* the mean of Value per group: TypeError when a group holds text
env_means(df, groups, sums) ==
    IF \E g \in 1..Len(groups) : sums[g].text
    THEN [exc |-> "TypeError", df |-> df, rows |-> <<>>]
    ELSE [exc |-> "", df |-> df,
          rows |-> [g \in 1..Len(groups) |->
                      [group |-> Str(groups[g][2]), series |-> groups[g][1],
                       value |-> MeanOf(sums[g])]]]

env_groups(df, groups) ==
    env_means(df, groups,
              [g \in 1..Len(groups) |->
                  SumCells(MemberCells(df, Members(df, groups[g][1], groups[g][2])), 1)])

\* the try block of update_environmental_chart: [exc, df, rows]
update_environmental_chart_try(df) ==
    IF \E i \in 1..Len(IdVars) : ~HasColumn(df, IdVars[i])
    THEN [exc |-> "KeyError", df |-> df, rows |-> <<>>]
    ELSE env_groups(df, EnvGroups(df))

is_object_dtype(t) == t = "object"

is_datetime64_any_dtype(t) == t = "datetime64"

\* sum(col_types.apply(...)): the number of columns a test is True for
CountTrue(tests) == Cardinality({i \in 1..Len(tests) : tests[i]})

\* the try block of update_summary_chart: the count of columns per dtype class
update_summary_chart_try(df) ==
    [exc |-> "", df |-> df,
     rows |-> <<[group |-> Str("Numeric"), series |-> "Count",
                 value |-> Num(CountTrue([i \in 1..Len(df.dtypes) |->
                                           is_numeric_dtype(df.dtypes[i])]))],
                [group |-> Str("Categorical"), series |-> "Count",
                 value |-> Num(CountTrue([i \in 1..Len(df.dtypes) |->
                                           is_object_dtype(df.dtypes[i])]))],
                [group |-> Str("Datetime"), series |-> "Count",
                 value |-> Num(CountTrue([i \in 1..Len(df.dtypes) |->
                                           is_datetime64_any_dtype(df.dtypes[i])]))]>>]

-----------------------------------------------------------------------------
(* The comparison charts and the correlation heatmap.                      *)

\* df[cols].melt(var_name="Sensor"): one row per column of cols and row of df
melt_all(df, cols) ==
    Flatten([c \in 1..Len(cols) |->
                [r \in 1..Len(df.rows) |->
                    [group |-> Str(cols[c]), series |-> "",
                     value |-> df.rows[r][ColIndex(df, cols[c])]]]], 1)

\* "Shaded (AG)" if any(ag in x for ag in groups["Shaded"]) else "Control (AO)"
Condition(x, shaded) ==
    IF \E i \in 1..Len(shaded) : Contains(Chars(x), Chars(shaded[i]))
    THEN "Shaded (AG)" ELSE "Control (AO)"

\* the Condition column of the long table
with_Condition(long, shaded) ==
    [i \in 1..Len(long) |-> [long[i] EXCEPT !.series = Condition(long[i].group.s, shaded)]]

\* the long table handed on with its rows that hold no value
dropna_KeepAll(long) == long

dropna(long) ==
    LET NotNull(row) == ~IsNull(row.value)
    IN  SelectSeq(long, NotNull)

\* the try block of the temperature, humidity and soil moisture comparisons
comparison_try(df, shaded, control) ==
    IF MissingColumns(df, shaded \o control) # {}
    THEN [exc |-> "KeyError", df |-> df, rows |-> <<>>]
    ELSE [exc |-> "", df |-> df,
          rows |-> with_Condition(dropna(melt_all(df, shaded \o control)), shaded)]

\* plot_types, and the alternatives of the regular expression, in their order
IrradiancePlotTypes ==
    <<Chars("AG-PV"), Chars("AO-TI"), Chars("AO-SS"), Chars("PO-PV"), Chars("AG-SS")>>

\* the alternatives that match cs at position i
MatchesAt(cs, i) ==
    {a \in 1..Len(IrradiancePlotTypes) : SubSeq(cs, i, i + 4) = IrradiancePlotTypes[a]}

\* the alternative matched at the leftmost of the positions hits, or nothing
LeftmostMatch(cs, hits) ==
    IF hits = {} THEN <<>>
    ELSE IrradiancePlotTypes[
            CHOOSE a \in MatchesAt(cs, CHOOSE i \in hits : \A j \in hits : i <= j) : TRUE]

\* str.extract(r'(AG-PV|AO-TI|AO-SS|PO-PV|AG-SS)'): the leftmost match
Abbreviation(cs) == LeftmostMatch(cs, {i \in 1..(Len(cs) - 4) : MatchesAt(cs, i) # {}})

plot_type_labels(abbr) ==
    CASE abbr = Chars("PO-PV") -> "Ground-Mounted PV Systems"
      [] abbr = Chars("AG-PV") -> "Agrivoltaic Photovoltaic Panel Sensors"
      [] abbr = Chars("AO-TI") -> "Control Plot - Tin Roof"
      [] abbr = Chars("AO-SS") -> "Control Plot - Soil Sensors"
      [] abbr = Chars("AG-SS") -> "Agrivoltaic Soil Sensors"
      [] OTHER -> ""

\* the Plot_Type column of the long table
with_Plot_Type(long) ==
    [i \in 1..Len(long) |->
        [long[i] EXCEPT !.series = plot_type_labels(Abbreviation(Chars(long[i].group.s)))]]

\* "Irr" in col and any(pt in col for pt in plot_types)
IsIrradianceColumn(c) ==
    /\ Contains(Chars(c), Chars("Irr"))
    /\ \E a \in 1..Len(IrradiancePlotTypes) : Contains(Chars(c), IrradiancePlotTypes[a])

\* merged_df.columns = merged_df.columns.str.strip()
strip_columns(df) == [df EXCEPT !.columns = [i \in 1..Len(df.columns) |-> strip(df.columns[i])]]

\* the chart of a table whose column names are stripped
irradiance_stripped(df) ==
    [exc |-> "", df |-> df,
     rows |-> with_Plot_Type(melt_all(df, SelectSeq(df.columns, IsIrradianceColumn)))]

\* the try block of update_irradiance_comparison: [exc, df, rows]
update_irradiance_comparison_try(df) == irradiance_stripped(strip_columns(df))

CorrelationColumns == <<"AG-PV P3/Irr (W/m2)", "AG-SS P1/RH (%)">>

\* the rows of df in which both columns hold a value
CompleteRows(x, y) ==
    SelectSeq([r \in 1..Len(x) |-> r], LAMBDA r : ~IsNull(x[r]) /\ ~IsNull(y[r]))

\* df.corr(method='pearson') of the complete rows: a ValueError when one of
\* them holds text; rows are the pairs the correlation is computed from
corr(x, y, complete) ==
    IF \E i \in 1..Len(complete) : x[complete[i]].k # "num" \/ y[complete[i]].k # "num"
    THEN [exc |-> "ValueError", rows |-> <<>>]
    ELSE [exc |-> "",
          rows |-> [i \in 1..Len(complete) |->
                      [group |-> x[complete[i]], series |-> "pair",
                       value |-> y[complete[i]]]]]

corr_columns(x, y) == corr(x, y, CompleteRows(x, y))

\* the try block of update_corr_heatmap: [exc, df, rows]
update_corr_heatmap_try(df) ==
    IF MissingColumns(df, CorrelationColumns) # {}
    THEN [exc |-> "KeyError", df |-> df, rows |-> <<>>]
    ELSE [df |-> df] @@
         corr_columns(Column(df, CorrelationColumns[1]), Column(df, CorrelationColumns[2]))

-----------------------------------------------------------------------------
(* The view router: update_tab_content and the chart ids of each view.     *)

Views == {"overview", "executive", "temperature", "environment", "energy", "finals"}

\* the dcc.Graph ids created by each create_*_content
create_executive_content ==
    [view |-> "executive",
     slots |-> {"rainfall-trend", "environmental-conditions", "summary-statistics"}]

create_temperature_content ==
    [view |-> "temperature",
     slots |-> {"temperature-comparison", "hourly-temperature", "monthly-temperature"}]

create_environment_content ==
    [view |-> "environment",
     slots |-> {"humidity-comparison", "soil-moisture-comparison", "hourly-humidity"}]

create_energy_content ==
    [view |-> "energy",
     slots |-> {"irradiance-comparison", "correlation-analysis", "hourly-irradiance"}]

create_overview_content == [view |-> "overview", slots |-> {}]

create_finals_content == [view |-> "finals", slots |-> {}]

\* the router without its branch for the last tab
update_tab_content_NoFinals(t) ==
    CASE t = "overview" -> create_overview_content
      [] t = "executive" -> create_executive_content
      [] t = "temperature" -> create_temperature_content
      [] t = "environment" -> create_environment_content
      [] t = "energy" -> create_energy_content
      [] OTHER -> create_overview_content

\* the router without its final else: nothing is returned for another value
update_tab_content_NoElse(t) ==
    CASE t = "overview" -> create_overview_content
      [] t = "executive" -> create_executive_content
      [] t = "temperature" -> create_temperature_content
      [] t = "environment" -> create_environment_content
      [] t = "energy" -> create_energy_content
      [] t = "finals" -> create_finals_content
      [] OTHER -> [view |-> "", slots |-> {}]

update_tab_content(t) ==
    CASE t = "overview" -> create_overview_content
      [] t = "executive" -> create_executive_content
      [] t = "temperature" -> create_temperature_content
      [] t = "environment" -> create_environment_content
      [] t = "energy" -> create_energy_content
      [] t = "finals" -> create_finals_content
      [] OTHER -> create_overview_content

\* every chart callback dispatched whenever main-tabs changes
Visible_AnyChart(slot) ==
    slot \in UNION {update_tab_content(t).slots :
                      t \in {"executive", "temperature", "environment", "energy"}}

\* a chart callback is dispatched for the chart ids that are on the page
Visible(slot) == slot \in content.slots

-----------------------------------------------------------------------------
(* The files.  A layout is the columns of a file in order, each with the   *)
(* values its cells are drawn from.                                        *)

Col(n, dom) == [name |-> n, dom |-> dom]

RECURSIVE RowsOf(_)
\* every row of a layout
RowsOf(layout) ==
    IF layout = <<>> THEN {<<>>}
    ELSE {<<c>> \o rest : c \in Head(layout).dom, rest \in RowsOf(Tail(layout))}

\* the files with the columns of a layout and at most n rows, each of them
\* one of rowdom
FilesWith(layout, rowdom, n) ==
    {[status |-> "ok",
      columns |-> [i \in 1..Len(layout) |-> layout[i].name],
      rows |-> rows] : rows \in UNION {[1..k -> rowdom] : k \in 0..n}}

\* a file that cannot be read at all
BadFiles ==
    {[status |-> st, columns |-> <<>>, rows |-> <<>>] :
        st \in {"missing", "unreadable", "unparseable"}}

Layouts ==
    { \* the temperature view's columns
      <<Col("DATE", {Str("2023-05-14")}), Col("TIME", {Str("05:10:00"), Str("fault")}),
        Col("Month", {Str("May")}), Col("AG-PV P3/T (oC)", {Num(24), NaN}), Col("AO-TI P2/T (oC)", {Num(26)}),
        Col("PO-PV/T (oC)", {Num(30)})>>,
      \* no DATE, no PO-PV/T, an Hour column in the file next to TIME
      <<Col("TIME", {Str("05:10:00")}), Col("Hour", {Num(5), Num(24)}),
        Col("AG-PV P3/T (oC)", {Num(24)}), Col("AO-TI P2/T (oC)", {Num(26)}),
        Col("AG-TI P1/RH (%)", {Num(24)}), Col("AO-TI P2/RH (%)", {Num(26)})>>,
      \* the environment view's columns, one of them with text in it
      <<Col("DATE", {Str("2023-05-14"), Str("fault")}), Col("TIME", {Str("06:40:00")}),
        Col("Month", {Str("June")}), Col("AG-SS P1/RH (%)", {Num(24)}),
        Col("AO-TI P2/RH (%)", {Num(26), Str("fault")}), Col("AO-SS P1/RH (%)", {Num(30)}),
        Col("AG-TI P1/RH (%)", {NaN})>>,
      \* the energy view's columns, one name with a trailing blank
      <<Col("TIME", {Str("05:10:00"), Str("06:40:00")}), Col("Month", {Str("May")}),
        Col("AG-PV P1/Irr (W/m2)", {Num(24)}),
        Col("PO-PV/Irr (W/m2) ", {Num(26)}), Col("AG-PV P3/Irr (W/m2)", {Num(30), Str("fault")}),
        Col("AG-SS P1/RH (%)", {Num(24)})>>,
      \* the weather station's rainfall per Month
      <<Col("DATE", {Str("2023-05-14")}), Col("TIME", {Str("05:10:00")}),
        Col("Month", {Str("May"), Str("October")}), Col("WS/P (mm)", {Num(24), NaN})>>,
      \* a rainfall column under another name, with a timestamp
      <<Col("timestamp", {Str("2023-05-14 05:10:00"), Str("fault")}),
        Col("Rainfall (mm)", {Num(24), Num(26)})>>,
      \* the soil sensors on their own, with rows that hold no value
      <<Col("AG-SS P1/RH (%)", {Num(24), NaN}), Col("AO-SS P1/RH (%)", {NaN})>>,
      \* the temperature columns in another order, one of them first
      <<Col("PO-PV/T (oC)", {Num(30)}), Col("DATE", {Str("2023-05-14")}),
        Col("TIME", {Str("05:10:00")}), Col("Month", {Str("May")}),
        Col("AO-TI P2/T (oC)", {Num(26)}), Col("AG-PV P3/T (oC)", {Num(24), NaN})>>,
      \* the weather station's rainfall without Month, next to another
      \* rainfall column and a timestamp
      <<Col("WS/P (mm)", {Num(24)}), Col("Rainfall (mm)", {Num(26)}),
        Col("timestamp", {Str("2023-05-14 05:10:00")})>>,
      \* the same with Month
      <<Col("WS/P (mm)", {Num(24)}), Col("Rainfall (mm)", {Num(26)}),
        Col("timestamp", {Str("2023-05-14 05:10:00")}), Col("Month", {Str("May")})>>,
      \* no column the charts know
      <<Col("Notes", {Str("fault")})>> }

\* a file with one row more than the rainfall chart's sample, its rows numbered
LongFile ==
    [status |-> "ok", columns |-> <<"Notes">>,
     rows |-> [r \in 1..(SampleRows + 1) |-> <<Num(r)>>]]

Files == BadFiles \cup {LongFile} \cup UNION {FilesWith(l, RowsOf(l), MaxRows) : l \in Layouts}

\* the installed pandas: groupby's default for observed
Builds == {[observed |-> FALSE], [observed |-> TRUE]}

NoContent == [view |-> "", slots |-> {}]

NoTags == [plot |-> "", sensor |-> ""]

\* app.py: the three dcc.Graph components before any callback has returned
NoFigures ==
    [id \in {"province-chart", "trend-chart", "districts-chart"} |->
        [arg |-> NaN, traces |-> <<>>]]

InitOf(files) ==
    /\ pc = "import"
    /\ build \in Builds
    /\ file \in files
    /\ merged_df = EmptyDataFrame
    /\ tab = "overview"
    /\ content = NoContent
    /\ result = NoResult
    /\ name = <<>>
    /\ tags = NoTags
    /\ year_filter = 2023
    /\ region_filter = "all"
    /\ figures = NoFigures

Init == InitOf(Files)

-----------------------------------------------------------------------------
(* The actions.                                                            *)

\* merged_df = load_data(), when the module is imported
Bind(r) ==
    /\ pc' = IF r.exc = "" THEN "serving" ELSE "crashed"
    /\ merged_df' = r.df
    /\ result' = [op |-> "load_data", kind |-> IF r.exc = "" THEN "table" ELSE "raised",
                  name |-> "", rows |-> <<>>,
                  printed |-> IF r.exc = "" THEN r.printed ELSE r.exc]

Load ==
    /\ pc = "import"
    /\ Bind(load_data(file))
    /\ UNCHANGED <<build, file, tab, content, name, tags,
                 year_filter, region_filter, figures>>

\* the tab values a request can carry: the six tabs, or anything else
TabValues == Views \cup {"none"}

\* main-tabs changes to t and the tab-content callback renders its view
SelectTab ==
    /\ pc = "serving"
    /\ \E t \in TabValues :
          /\ tab' = t
          /\ content' = update_tab_content(t)
          /\ result' = [op |-> "update_tab_content", kind |-> "content",
                        name |-> content'.view, rows |-> <<>>, printed |-> ""]
    /\ UNCHANGED <<pc, build, file, merged_df, name, tags,
                 year_filter, region_filter, figures>>

\* one call of a chart callback on the shared table
Return(out) ==
    /\ merged_df' = out.df
    /\ result' = out.result

Run(op, body, nodata, error) ==
    /\ pc = "serving"
    /\ Return(callback(op, merged_df, body, nodata, error))
    /\ UNCHANGED <<pc, build, file, tab, content, name, tags,
                 year_filter, region_filter, figures>>

update_rainfall_chart ==
    Run("rainfall-trend", update_rainfall_chart_try(merged_df, build.observed),
        "No Data Available", "Error Loading Data")

update_environmental_chart ==
    Run("environmental-conditions", update_environmental_chart_try(merged_df),
        "No Data Available", "Error Loading Data")

update_summary_chart ==
    Run("summary-statistics", update_summary_chart_try(merged_df),
        "No data available", "Error loading data")

update_temperature_comparison ==
    Run("temperature-comparison",
        comparison_try(merged_df, <<"AG-PV P1/T (oC)", "AG-SS P1/T (oC)">>,
                       <<"AO-TI P2/T (oC)", "AO-SS P1/T (oC)">>),
        "No Data Available", "Error Loading Data")

update_hourly_temperature ==
    Run("hourly-temperature",
        hourly_try(merged_df, FALSE, TemperatureColumns, TemperatureLabels, build.observed),
        "No Data Available", "Error Loading Data")

update_monthly_temperature ==
    Run("monthly-temperature", update_monthly_temperature_try(merged_df, build.observed),
        "No Data Available", "Error Loading Data")

update_humidity_comparison ==
    Run("humidity-comparison",
        comparison_try(merged_df, <<"AG-SS P1/RH (%)">>,
                       <<"AO-TI P2/RH (%)", "AO-SS P1/RH (%)">>),
        "No Data Available", "Error Loading Data")

update_soil_moisture_comparison ==
    Run("soil-moisture-comparison",
        comparison_try(merged_df, <<"AG-SS P1/RH (%)">>, <<"AO-SS P1/RH (%)">>),
        "No Data Available", "Error Loading Data")

update_hourly_humidity ==
    Run("hourly-humidity",
        hourly_try(merged_df, FALSE, <<"AG-TI P1/RH (%)", "AO-TI P2/RH (%)">>,
                   <<"Agrivoltaic", "Control">>, build.observed),
        "No Data Available", "Error Loading Data")

update_irradiance_comparison ==
    Run("irradiance-comparison", update_irradiance_comparison_try(merged_df),
        "No Data Available", "Error Loading Data")

update_corr_heatmap ==
    Run("correlation-analysis", update_corr_heatmap_try(merged_df),
        "No Data Available", "Error Loading Data")

update_hourly_irradiance ==
    Run("hourly-irradiance",
        hourly_try(merged_df, TRUE, <<"AG-PV P1/Irr (W/m2)", "PO-PV/Irr (W/m2)">>,
                   <<"Agrivoltaic", "Ground-mounted">>, build.observed),
        "No Data Available", "Error Loading Data")

Next ==
    \/ Load
    \/ SelectTab
    \/ Visible("rainfall-trend") /\ update_rainfall_chart
    \/ Visible("environmental-conditions") /\ update_environmental_chart
    \/ Visible("summary-statistics") /\ update_summary_chart
    \/ Visible("temperature-comparison") /\ update_temperature_comparison
    \/ Visible("hourly-temperature") /\ update_hourly_temperature
    \/ Visible("monthly-temperature") /\ update_monthly_temperature
    \/ Visible("humidity-comparison") /\ update_humidity_comparison
    \/ Visible("soil-moisture-comparison") /\ update_soil_moisture_comparison
    \/ Visible("hourly-humidity") /\ update_hourly_humidity
    \/ Visible("irradiance-comparison") /\ update_irradiance_comparison
    \/ Visible("correlation-analysis") /\ update_corr_heatmap
    \/ Visible("hourly-irradiance") /\ update_hourly_irradiance

Spec == Init /\ [][Next]_vars

-----------------------------------------------------------------------------
(* The aggregations on their own: the hour and month aggregations and the  *)
(* rainfall chart, called in any order on the table loaded from files that *)
(* spread their rows over several groups.                                  *)

\* temperatures at hour 5, one column with no value at all
EarlyLayout ==
    <<Col("DATE", {Str("2023-05-14")}), Col("TIME", {Str("05:10:00")}),
      Col("AG-PV P3/T (oC)", {Num(24), Num(26)}), Col("AO-TI P2/T (oC)", {Num(26)}), Col("PO-PV/T (oC)", {NaN})>>

\* the same columns at hour 6
LateLayout ==
    <<Col("DATE", {Str("2023-05-14")}), Col("TIME", {Str("06:40:00")}),
      Col("AG-PV P3/T (oC)", {Num(30)}), Col("AO-TI P2/T (oC)", {Num(26)}), Col("PO-PV/T (oC)", {NaN})>>

AggLayouts ==
    { \* an Hour column in the file, next to TIME
      <<Col("TIME", {Str("06:40:00")}), Col("Hour", {Num(5), Num(24)}),
        Col("AG-PV P3/T (oC)", {Num(24)}), Col("AO-TI P2/T (oC)", {Num(26)}), Col("PO-PV/T (oC)", {Num(30)}),
        Col("AG-PV P1/Irr (W/m2)", {Num(24)}), Col("PO-PV/Irr (W/m2)", {Num(26)})>>,
      \* humidity late in the day, with a time that is none and blanks
      <<Col("TIME", {Str("23:59:00"), Str("24:30:00")}),
        Col("AG-TI P1/RH (%)", {Num(24), NaN}), Col("AO-TI P2/RH (%)", {Num(26)})>>,
      \* temperatures per Month, one month outside the categories
      <<Col("DATE", {Str("2023-05-14")}), Col("Month", {Str("June"), Str("May"), Str("September")}),
        Col("AG-PV P3/T (oC)", {Num(24), Num(30)}), Col("AO-TI P2/T (oC)", {Num(26)}), Col("PO-PV/T (oC)", {Num(30)})>>,
      \* temperatures with DATE only
      <<Col("DATE", {Str("2023-10-09"), Str("2023-05-14"), Str("2023-09-21"), Str("2023-13-45")}),
        Col("AG-PV P3/T (oC)", {Num(24)}), Col("AO-TI P2/T (oC)", {Num(26)}), Col("PO-PV/T (oC)", {Num(30)})>>,
      \* the weather station's rainfall per Month
      <<Col("DATE", {Str("2023-05-14")}), Col("Month", {Str("June"), Str("May")}),
        Col("WS/P (mm)", {Num(24), NaN})>> }

AggFiles ==
    FilesWith(EarlyLayout, RowsOf(EarlyLayout) \cup RowsOf(LateLayout), MaxAggRows)
        \cup UNION {FilesWith(l, RowsOf(l), MaxAggRows) : l \in AggLayouts}

InitAgg == InitOf(AggFiles)

NextAgg ==
    \/ Load
    \/ update_hourly_temperature
    \/ update_hourly_humidity
    \/ update_hourly_irradiance
    \/ update_monthly_temperature
    \/ update_rainfall_chart

SpecAgg == InitAgg /\ [][NextAgg]_vars

-----------------------------------------------------------------------------
(* The classifiers on their own: one name, classified once.                *)

\* the substrings of the rules, and some text that is in none of them
Pieces ==
    {Chars("AG-PV"), Chars("AG-TI"), Chars("AG-SS"), Chars("AO-TI"), Chars("AO-SS"),
     Chars("PO-PV"), Chars("WS"), Chars("Irr"), Chars("/T"), Chars("/RH"), Chars("/P"),
     <<" ", "P", "1">>, <<"i", "r", "r">>}

RECURSIVE Names(_)
\* the concatenations of at most n pieces
Names(n) ==
    IF n = 0 THEN {<<>>}
    ELSE Names(n - 1) \cup {a \o b : a \in Names(n - 1), b \in Pieces}

ClassifierInputs == Names(MaxPieces) \cup {Chars(n) : n \in ColumnNames}

InitClassify ==
    /\ pc = "classify"
    /\ build = [observed |-> FALSE]
    /\ file = [status |-> "missing", columns |-> <<>>, rows |-> <<>>]
    /\ merged_df = EmptyDataFrame
    /\ tab = "overview"
    /\ content = NoContent
    /\ result = NoResult
    /\ name \in ClassifierInputs
    /\ tags = NoTags
    /\ year_filter = 2023
    /\ region_filter = "all"
    /\ figures = NoFigures

\* plot_types["Sensor"].apply(classify_plot) and
\* long_df["Sensor"].apply(get_sensor_type) on one name
Classify ==
    /\ pc = "classify"
    /\ pc' = "classified"
    /\ tags' = [plot |-> classify_plot(name), sensor |-> get_sensor_type(name)]
    /\ UNCHANGED <<build, file, merged_df, tab, content, result, name,
                 year_filter, region_filter, figures>>

SpecClassify == InitClassify /\ [][Classify]_vars

-----------------------------------------------------------------------------
(* The nutrition dashboard (src/app.py): three tables built in the module, *)
(* two dropdowns and three chart callbacks.  Rates are the decimal numbers *)
(* of the source, as fractions; a figure is the sequence of its traces,    *)
(* each with the data bound to it (the text labels repeat the rates).      *)

provinces_data ==
    << [Province |-> "Eastern", Stunting_Rate |-> Frac(382, 10), Poverty_Rate |-> Frac(421, 10),
        Population |-> 2800000],
       [Province |-> "Western", Stunting_Rate |-> Frac(351, 10), Poverty_Rate |-> Frac(385, 10),
        Population |-> 2600000],
       [Province |-> "Southern", Stunting_Rate |-> Frac(368, 10), Poverty_Rate |-> Frac(402, 10),
        Population |-> 2900000],
       [Province |-> "Northern", Stunting_Rate |-> Frac(335, 10), Poverty_Rate |-> Frac(358, 10),
        Population |-> 1900000],
       [Province |-> "Kigali", Stunting_Rate |-> Frac(289, 10), Poverty_Rate |-> Frac(223, 10),
        Population |-> 1300000] >>

\* range(2015, 2026), the options of year-filter
YearOptions == 2015..2025

trend_data ==
    [i \in 1..11 |->
        [Year |-> 2014 + i,
         Stunting_Rate |-> <<Frac(425, 10), Frac(418, 10), Frac(402, 10), Frac(389, 10),
                             Frac(375, 10), Frac(362, 10), Frac(350, 10), Frac(338, 10),
                             Frac(325, 10), Frac(312, 10), Frac(300, 10)>>[i],
         Predicted |-> IF i <= 6 THEN NaN
                       ELSE <<Frac(350, 10), Frac(338, 10), Frac(325, 10), Frac(312, 10),
                              Frac(300, 10)>>[i - 6]]]

district_data ==
    [i \in 1..12 |->
        [District |-> <<"Bugesera", "Nyagatare", "Gatsibo", "Kayonza", "Ngoma", "Kirehe",
                        "Rwamagana", "Huye", "Gisagara", "Nyaruguru", "Kamonyi", "Muhanga">>[i],
         Risk_Level |-> IF i = 7 THEN "Medium" ELSE "High",
         Stunting_Rate |-> <<Frac(412, 10), Frac(405, 10), Frac(398, 10), Frac(389, 10),
                             Frac(385, 10), Frac(379, 10), Frac(345, 10), Frac(372, 10),
                             Frac(368, 10), Frac(391, 10), Frac(365, 10), Frac(378, 10)>>[i]]]

\* the options of region-filter: 'all' and the provinces
RegionOptions == {"all"} \cup {provinces_data[i].Province : i \in 1..Len(provinces_data)}

\* go.Bar of the rows of df, coloured by the region asked for
province_bar(df, region) ==
    << [name |-> "",
        x |-> [i \in 1..Len(df) |-> Str(df[i].Province)],
        y |-> [i \in 1..Len(df) |-> df[i].Stunting_Rate],
        marker_color |-> [i \in 1..Len(df) |->
                            IF df[i].Province = region \/ region = "all"
                            THEN "#4299E1" ELSE "#CBD5E0"]] >>

\* the province chart without the narrowing to the region
update_province_chart_NoFilter(region) == province_bar(provinces_data, region)

update_province_chart(region) ==
    IF region # "all"
    THEN province_bar(SelectSeq(provinces_data, LAMBDA row : row.Province = region), region)
    ELSE province_bar(provinces_data, region)

\* the Actual and the Predicted line; selected_year is not read
update_trend_chart(selected_year) ==
    << [name |-> "Actual",
        x |-> [i \in 1..Len(SelectSeq(trend_data, LAMBDA row : row.Year <= 2023)) |->
                 Num(SelectSeq(trend_data, LAMBDA row : row.Year <= 2023)[i].Year)],
        y |-> [i \in 1..Len(SelectSeq(trend_data, LAMBDA row : row.Year <= 2023)) |->
                 SelectSeq(trend_data, LAMBDA row : row.Year <= 2023)[i].Stunting_Rate],
        marker_color |-> <<"#4299E1">>],
       [name |-> "Predicted",
        x |-> [i \in 1..Len(SelectSeq(trend_data, LAMBDA row : row.Year >= 2023)) |->
                 Num(SelectSeq(trend_data, LAMBDA row : row.Year >= 2023)[i].Year)],
        y |-> [i \in 1..Len(SelectSeq(trend_data, LAMBDA row : row.Year >= 2023)) |->
                 SelectSeq(trend_data, LAMBDA row : row.Year >= 2023)[i].Predicted],
        marker_color |-> <<"#48BB78">>] >>

\* the rows left in the order of district_data
sort_values_Unsorted(df) == df

\* sort_values('Stunting_Rate', ascending=True): the row with i - 1 smaller
\* rates comes i-th (the rates of district_data are all different, so the
\* order of equal rates, which quicksort leaves open, plays no part)
sort_values(df) ==
    [i \in 1..Len(df) |->
        df[CHOOSE k \in 1..Len(df) :
              Cardinality({j \in 1..Len(df) :
                              df[j].Stunting_Rate.n * df[k].Stunting_Rate.d
                                  < df[k].Stunting_Rate.n * df[j].Stunting_Rate.d}) = i - 1]]

\* go.Bar of the rows of df, horizontal, coloured by rate
districts_bar(df) ==
    << [name |-> "",
        x |-> [i \in 1..Len(df) |-> df[i].Stunting_Rate],
        y |-> [i \in 1..Len(df) |-> Str(df[i].District)],
        marker_color |-> [i \in 1..Len(df) |->
                            IF df[i].Stunting_Rate.n > 39 * df[i].Stunting_Rate.d THEN "#F56565"
                            ELSE IF df[i].Stunting_Rate.n > 37 * df[i].Stunting_Rate.d
                            THEN "#ED8936" ELSE "#ECC94B"]] >>

\* the high-risk districts by rising rate; region is not read
update_districts_chart(region) ==
    districts_bar(sort_values(SelectSeq(district_data, LAMBDA row : row.Risk_Level = "High")))

InitNutrition ==
    /\ pc = "nutrimap"
    /\ build = [observed |-> FALSE]
    /\ file = [status |-> "missing", columns |-> <<>>, rows |-> <<>>]
    /\ merged_df = EmptyDataFrame
    /\ tab = "overview"
    /\ content = NoContent
    /\ result = NoResult
    /\ name = <<>>
    /\ tags = NoTags
    /\ year_filter = 2023
    /\ region_filter = "all"
    /\ figures = NoFigures

\* the user picks an option of year-filter
SelectYear ==
    /\ pc = "nutrimap"
    /\ year_filter' \in YearOptions \ {year_filter}
    /\ UNCHANGED <<pc, build, file, merged_df, tab, content, result, name, tags,
                   region_filter, figures>>

\* the user picks an option of region-filter
SelectRegion ==
    /\ pc = "nutrimap"
    /\ region_filter' \in RegionOptions \ {region_filter}
    /\ UNCHANGED <<pc, build, file, merged_df, tab, content, result, name, tags,
                   year_filter, figures>>

\* a callback is called with the value of its Input, when the page is
\* loaded and after the value has changed, and its figure is put into its
\* Output
Render(id, arg, traces) ==
    /\ pc = "nutrimap"
    /\ figures[id].arg # arg
    /\ figures' = [figures EXCEPT ![id] = [arg |-> arg, traces |-> traces]]
    /\ UNCHANGED <<pc, build, file, merged_df, tab, content, result, name, tags,
                   year_filter, region_filter>>

NextNutrition ==
    \/ SelectYear
    \/ SelectRegion
    \/ Render("province-chart", Str(region_filter), update_province_chart(region_filter))
    \/ Render("trend-chart", Num(year_filter), update_trend_chart(year_filter))
    \/ Render("districts-chart", Str(region_filter), update_districts_chart(region_filter))

SpecNutrition == InitNutrition /\ [][NextNutrition]_vars

-----------------------------------------------------------------------------
(* Properties of the loader and of the callbacks' failure handling (Spec). *)

\* the chart ids of the twelve chart callbacks
ChartIds == UNION {update_tab_content(t).slots : t \in Views}

\* the file's timestamp column (timestamp, or else Timestamp), 0 if it has none
FileTimestampIndex(f) ==
    IF \E i \in 1..Len(f.columns) : f.columns[i] = "timestamp"
    THEN CHOOSE i \in 1..Len(f.columns) : f.columns[i] = "timestamp"
    ELSE IF \E i \in 1..Len(f.columns) : f.columns[i] = "Timestamp"
    THEN CHOOSE i \in 1..Len(f.columns) : f.columns[i] = "Timestamp"
    ELSE 0

\* a cell of the file that is text and no date
BadDateText(c) ==
    c.k = "str" /\ ~(Fields(c.s).lex /\ Fields(c.s).mo \in 1..12 /\ Fields(c.s).dd \in 1..31
                       /\ Fields(c.s).hh \in 0..23 /\ Fields(c.s).mi \in 0..59)

\* the failures while loading: the file is missing, unreadable or unparseable,
\* or its timestamp column holds a text that is no timestamp
LoadFails(f) ==
    \/ f.status # "ok"
    \/ /\ FileTimestampIndex(f) # 0
       /\ \E r \in 1..Len(f.rows) : BadDateText(f.rows[r][FileTimestampIndex(f)])

\* the table is the file's: its columns, its rows, and outside the converted
\* columns its cells; a converted cell is a timestamp, a month of the
\* categories, or missing
ParsedTable(df, f) ==
    /\ df.columns = f.columns
    /\ Len(df.rows) = Len(f.rows)
    /\ \A r \in 1..Len(f.rows) : \A i \in 1..Len(f.columns) :
          CASE f.columns[i] \in {"DATE", "timestamp", "Timestamp"} ->
                    /\ df.rows[r][i].k \in {"dt", "nan"}
                    /\ df.rows[r][i].k = "dt" => df.rows[r][i].s = f.rows[r][i].s
                    /\ df.rows[r][i].k = "nan" => (f.rows[r][i].k = "nan" \/ BadDateText(f.rows[r][i]))
            [] f.columns[i] = "Month" ->
                    IF f.rows[r][i].s \in {"May", "June", "July", "August", "October"}
                    THEN df.rows[r][i] = f.rows[r][i]
                    ELSE df.rows[r][i] = NaN
            [] OTHER -> df.rows[r][i] = f.rows[r][i]

\* C1: load_data never raises to its caller: after every failure while
\* loading (file missing, unreadable, unparseable, a failing column
\* conversion) the table it returned has zero rows and zero columns, and on
\* success it is the parsed table of the file.
C1_LoadNeverRaises ==
    result.op = "load_data" =>
        /\ result.kind = "table"
        /\ pc = "serving"
        /\ LoadFails(file) =>
              (Len(merged_df.rows) = 0 /\ Len(merged_df.columns) = 0 /\ result.printed # "")
        /\ ~LoadFails(file) => (ParsedTable(merged_df, file) /\ result.printed = "")

\* C1 witness: a readable file whose timestamp conversion failed, loaded as
\* the empty table
C1_Witness ==
    /\ result.op = "load_data"
    /\ file.status = "ok"
    /\ Len(file.rows) > 0
    /\ LoadFails(file)
    /\ result.printed = "ValueError"
    /\ merged_df = EmptyDataFrame

\* the text of a callback's 'no data' placeholder
NoDataText(op) == IF op = "summary-statistics" THEN "No data available" ELSE "No Data Available"

\* C2: when the shared table is empty (no rows or no columns), a call of any
\* of the twelve chart callbacks returns its 'no data' placeholder, raises
\* nothing and leaves the table unchanged.
C2_EmptyTableNoData ==
    [][((Len(merged_df.rows) = 0 \/ Len(merged_df.columns) = 0) /\ result'.op \in ChartIds)
         => /\ result'.kind = "nodata"
            /\ result'.name = NoDataText(result'.op)
            /\ result'.rows = <<>>
            /\ merged_df' = merged_df]_vars

\* C2 witness: a file with its columns and no row, loaded as an empty table,
\* and the placeholder of the hourly irradiance callback
C2_Witness ==
    /\ Len(merged_df.columns) > 0
    /\ Len(merged_df.rows) = 0
    /\ result.op = "hourly-irradiance"
    /\ result.kind = "nodata"

\* C3: no chart callback and no tab-content callback propagates an error:
\* each call ends by returning a chart description or a placeholder figure,
\* the tab-content callback by returning one of the six views.
C3_NoErrorPropagates ==
    /\ result.op \in ChartIds => result.kind \in {"chart", "nodata", "error"}
    /\ result.op \in ChartIds /\ result.kind = "error" =>
          result.name \in {"Error Loading Data", "Error loading data"}
    /\ result.op = "update_tab_content" => (result.kind = "content" /\ result.name \in Views)

\* C3 witness: a callback whose try block raised on a table that is not
\* empty, and which returned its error placeholder
C3_Witness ==
    /\ result.op \in ChartIds
    /\ result.kind = "error"
    /\ result.printed = "TypeError"
    /\ ~IsEmpty(merged_df)

-----------------------------------------------------------------------------
(* Properties of the hour and month aggregations.  result is what the last *)
(* call returned and merged_df the table as that call left it.             *)

HourlyIds == {"hourly-temperature", "hourly-humidity", "hourly-irradiance"}

MonthlyIds == {"monthly-temperature", "rainfall-trend"}

\* the column of the table a call groups by
GroupColumn(op) == IF op \in HourlyIds THEN "Hour" ELSE "Month"

\* the columns a call selects, and the series each of them is shown as
SelectedColumns(op) ==
    CASE op = "hourly-humidity" -> <<"AG-TI P1/RH (%)", "AO-TI P2/RH (%)">>
      [] op = "hourly-irradiance" -> <<"AG-PV P1/Irr (W/m2)", "PO-PV/Irr (W/m2)">>
      [] op = "rainfall-trend" -> <<"WS/P (mm)">>
      [] OTHER -> <<"AG-PV P3/T (oC)", "AO-TI P2/T (oC)", "PO-PV/T (oC)">>

SeriesLabels(op) ==
    CASE op = "hourly-humidity" -> <<"Agrivoltaic", "Control">>
      [] op = "hourly-irradiance" -> <<"Agrivoltaic", "Ground-mounted">>
      [] op = "rainfall-trend" -> <<"Rainfall">>
      [] OTHER -> <<"Agrivoltaic", "Control", "Ground-mounted">>

\* the last call was a mean-based hour or month aggregation and returned a chart
MeanChart ==
    /\ result.kind = "chart"
    /\ result.op \in HourlyIds \cup MonthlyIds
    /\ result.op = "rainfall-trend" => HasColumn(merged_df, "WS/P (mm)")

\* the source column of a series of the last call
SourceColumn(series) ==
    SelectedColumns(result.op)[CHOOSE i \in 1..Len(SeriesLabels(result.op)) :
                                  SeriesLabels(result.op)[i] = series]

\* the cell of row r of the table in column col
Cell(r, col) == merged_df.rows[r][ColIndex(merged_df, col)]

\* the rows of the table in group g
GroupRows(g) == {r \in 1..Len(merged_df.rows) : Cell(r, GroupColumn(result.op)) = g}

\* the rows of group g that hold a value of the series
Contributing(g, series) == {r \in GroupRows(g) : Cell(r, SourceColumn(series)).k = "num"}

RECURSIVE Total(_, _)
\* the sum of a column over a set of rows that hold a number in it
Total(rows, col) ==
    IF rows = {} THEN 0
    ELSE LET r == CHOOSE q \in rows : TRUE
         IN  Cell(r, col).n + Total(rows \ {r}, col)

\* the positions of the result's rows of a (group, series) pair
RowsOfPair(g, series) ==
    {i \in 1..Len(result.rows) : result.rows[i].group = g /\ result.rows[i].series = series}

\* the series labels of the last call, as a set
Series == {SeriesLabels(result.op)[i] : i \in 1..Len(SeriesLabels(result.op))}

\* the group keys the table holds
KeysInTable == {Cell(r, GroupColumn(result.op)) : r \in 1..Len(merged_df.rows)} \ {NaN}

\* C4, as claimed: with a selected column absent and another one present,
\* the hourly temperature aggregation still returns a chart with the series
\* of the columns that exist.
C4_AbsentColumnSkipped ==
    ( /\ result.op = "hourly-temperature"
      /\ ~IsEmpty(merged_df)
      /\ HasColumn(merged_df, "Hour")
      /\ HasColumn(merged_df, "AG-PV P3/T (oC)") /\ HasColumn(merged_df, "AO-TI P2/T (oC)")
      /\ ~HasColumn(merged_df, "PO-PV/T (oC)") )
    => /\ result.kind = "chart"
       /\ \E i \in 1..Len(result.rows) : result.rows[i].series = "Agrivoltaic"
       /\ \E i \in 1..Len(result.rows) : result.rows[i].series = "Control"

C6_MeanOfNonMissing ==
    MeanChart =>
        \A i \in 1..Len(result.rows) :
            LET row == result.rows[i]
                rows == Contributing(row.group, row.series)
            IN  IF rows = {} THEN row.value = NaN
                ELSE /\ row.value.k = "num"
                     /\ row.value.d > 0
                     /\ row.value.n * Cardinality(rows)
                            = Total(rows, SourceColumn(row.series)) * row.value.d

\* C6 witness: 24 and 26 at hour 5 and 30 at hour 6 give 25 and 30
C6_Witness ==
    /\ MeanChart
    /\ result.op = "hourly-temperature"
    /\ Len(merged_df.rows) = 3
    /\ \E i \in 1..Len(result.rows) :
          result.rows[i] = [group |-> Num(5), series |-> "Agrivoltaic", value |-> Num(25)]
    /\ \E i \in 1..Len(result.rows) :
          result.rows[i] = [group |-> Num(6), series |-> "Agrivoltaic", value |-> Num(30)]

\* C7, as claimed: the group keys of the hour-grouped aggregations are whole
\* hours in 0..23, and no hour appears twice for a series.
C7_HourKeysInRange ==
    (result.op \in HourlyIds /\ result.kind = "chart") =>
        /\ \A i \in 1..Len(result.rows) :
              /\ result.rows[i].group.k = "num"
              /\ result.rows[i].group.d = 1
              /\ result.rows[i].group.n \in 0..23
        /\ \A i, j \in 1..Len(result.rows) :
              (i # j /\ result.rows[i].series = result.rows[j].series)
                  => result.rows[i].group # result.rows[j].group

\* the month sequence of the charts
FixedSequence == <<"May", "June", "July", "August", "October">>

\* the place of a group key in the month sequence, 0 if it has none
Place(g) ==
    IF g.k = "str" /\ \E m \in 1..Len(FixedSequence) : FixedSequence[m] = g.s
    THEN CHOOSE m \in 1..Len(FixedSequence) : FixedSequence[m] = g.s
    ELSE 0

-----------------------------------------------------------------------------
(* Properties of the classifiers (SpecClassify).                           *)

\* the rules as the claims give them: the substrings of a rule and its tag
PlotRules ==
    << [any |-> {Chars("AG-PV"), Chars("AG-TI"), Chars("AG-SS")}, tag |-> "Agrivoltaic"],
       [any |-> {Chars("AO-TI"), Chars("AO-SS")}, tag |-> "Control"],
       [any |-> {Chars("PO-PV")}, tag |-> "Ground PV"],
       [any |-> {Chars("WS")}, tag |-> "Weather Station"] >>

SensorRules ==
    << [any |-> {Chars("Irr")}, tag |-> "Irradiation"],
       [any |-> {Chars("/T")}, tag |-> "Temperature"],
       [any |-> {Chars("/RH")}, tag |-> "Humidity"],
       [any |-> {Chars("/P")}, tag |-> "Rainfall"] >>

\* the rules of which a substring occurs in the text
Matching(rules, text) ==
    {i \in 1..Len(rules) : \E sub \in rules[i].any : Contains(text, sub)}

\* C9: the classifiers are total: every name gets exactly one plot tag out
\* of Agrivoltaic, Control, Ground PV, Weather Station, Other and exactly one
\* sensor tag out of Temperature, Humidity, Irradiation, Rainfall, Other, and
\* the tag is Other exactly when no rule's substring occurs in the name.
C9_Total ==
    pc = "classified" =>
        /\ tags.plot \in {"Agrivoltaic", "Control", "Ground PV", "Weather Station", "Other"}
        /\ tags.sensor \in {"Temperature", "Humidity", "Irradiation", "Rainfall", "Other"}
        /\ tags.plot = "Other" <=> Matching(PlotRules, name) = {}
        /\ tags.sensor = "Other" <=> Matching(SensorRules, name) = {}

\* C9 witness: a name in which no rule's substring occurs, tagged Other twice
C9_Witness ==
    /\ pc = "classified"
    /\ name = <<"N", "o", "t", "e", "s">>
    /\ tags = [plot |-> "Other", sensor |-> "Other"]

\* C10: classification is first-match over the rule order: when some rule's
\* substring occurs in the name, the tag is that of the earliest such rule;
\* and 'AO-SS P1/RH (%)' is classified Control and Humidity.
C10_FirstMatch ==
    pc = "classified" =>
        /\ \A i \in Matching(PlotRules, name) :
              (\A j \in Matching(PlotRules, name) : i <= j) => tags.plot = PlotRules[i].tag
        /\ \A i \in Matching(SensorRules, name) :
              (\A j \in Matching(SensorRules, name) : i <= j) => tags.sensor = SensorRules[i].tag
        /\ name = <<"A", "O", "-", "S", "S", " ", "P", "1", "/", "R", "H", " ", "(", "%", ")">>
              => tags = [plot |-> "Control", sensor |-> "Humidity"]

\* C10 witness: a name that starts with a Control substring and goes on with
\* an Agrivoltaic one: the Agrivoltaic rule is the earlier one and decides
C10_Witness ==
    /\ pc = "classified"
    /\ name = Chars("AO-TI") \o Chars("AG-SS")
    /\ Cardinality(Matching(PlotRules, name)) = 2
    /\ tags.plot = "Agrivoltaic"

-----------------------------------------------------------------------------
(* Properties of the view router (Spec).                                   *)

\* C11: the selection starts at overview; whenever content is rendered for
\* one of the six tab values it is the content of that value, the most
\* recent selection (no chart callback touches the selection or the
\* content); and from every view each of the six views can be selected in
\* one step, so no view is terminal.
C11_LastSelection ==
    /\ content = NoContent => tab = "overview"
    /\ (content # NoContent /\ tab \in Views) =>
          /\ content.view = tab
          /\ content \in {create_overview_content, create_executive_content,
                          create_temperature_content, create_environment_content,
                          create_energy_content, create_finals_content}
    /\ pc = "serving" =>
          \A v \in Views : ENABLED (SelectTab /\ tab' = v /\ content'.view = v)

\* C11 witness: finals is rendered after a stay in a view whose hourly chart
\* added Hour to the table
C11_Witness ==
    /\ tab = "finals"
    /\ content = create_finals_content
    /\ result.op = "update_tab_content"
    /\ HasColumn(merged_df, "Hour")
    /\ \A i \in 1..Len(file.columns) : file.columns[i] # "Hour"

\* the chart ids of each view
SlotsOfView(v) ==
    CASE v = "executive" -> {"rainfall-trend", "environmental-conditions", "summary-statistics"}
      [] v = "temperature" -> {"temperature-comparison", "hourly-temperature",
                               "monthly-temperature"}
      [] v = "environment" -> {"humidity-comparison", "soil-moisture-comparison",
                               "hourly-humidity"}
      [] v = "energy" -> {"irradiance-comparison", "correlation-analysis", "hourly-irradiance"}
      [] OTHER -> {}

-----------------------------------------------------------------------------
(* Properties of the shared table under the chart callbacks (Spec).        *)

\* C13: once the table has its Hour and Month columns, no step of a chart
\* callback changes the table: neither a cell, nor a dtype, nor a column
\* name.
C13_NoWriteAfterDerived ==
    [][(pc = "serving" /\ HasColumn(merged_df, "Hour") /\ HasColumn(merged_df, "Month"))
          => merged_df' = merged_df]_vars

\* the sensor columns among names: all but the date, time and derived ones
SensorColumns(names) ==
    {names[i] : i \in 1..Len(names)}
        \ {"DATE", "TIME", "Month", "Hour", "timestamp", "Timestamp"}

\* C14: the column names of the table are unique, and in every state the
\* sensor column names are those the table had right after load_data.
C14_SensorColumnsFixed ==
    pc = "serving" =>
        /\ \A i, j \in 1..Len(merged_df.columns) :
              merged_df.columns[i] = merged_df.columns[j] => i = j
        /\ SensorColumns(merged_df.columns) = SensorColumns(load_data(file).df.columns)

\* the chart callback of a chart id, called on the table df: [df, result]
Call(op, df) ==
    CASE op = "rainfall-trend" ->
            callback(op, df, update_rainfall_chart_try(df, build.observed),
                     "No Data Available", "Error Loading Data")
      [] op = "environmental-conditions" ->
            callback(op, df, update_environmental_chart_try(df),
                     "No Data Available", "Error Loading Data")
      [] op = "summary-statistics" ->
            callback(op, df, update_summary_chart_try(df),
                     "No data available", "Error loading data")
      [] op = "temperature-comparison" ->
            callback(op, df,
                     comparison_try(df, <<"AG-PV P1/T (oC)", "AG-SS P1/T (oC)">>,
                                    <<"AO-TI P2/T (oC)", "AO-SS P1/T (oC)">>),
                     "No Data Available", "Error Loading Data")
      [] op = "hourly-temperature" ->
            callback(op, df,
                     hourly_try(df, FALSE, TemperatureColumns, TemperatureLabels,
                                build.observed),
                     "No Data Available", "Error Loading Data")
      [] op = "monthly-temperature" ->
            callback(op, df, update_monthly_temperature_try(df, build.observed),
                     "No Data Available", "Error Loading Data")
      [] op = "humidity-comparison" ->
            callback(op, df,
                     comparison_try(df, <<"AG-SS P1/RH (%)">>,
                                    <<"AO-TI P2/RH (%)", "AO-SS P1/RH (%)">>),
                     "No Data Available", "Error Loading Data")
      [] op = "soil-moisture-comparison" ->
            callback(op, df,
                     comparison_try(df, <<"AG-SS P1/RH (%)">>, <<"AO-SS P1/RH (%)">>),
                     "No Data Available", "Error Loading Data")
      [] op = "hourly-humidity" ->
            callback(op, df,
                     hourly_try(df, FALSE, <<"AG-TI P1/RH (%)", "AO-TI P2/RH (%)">>,
                                <<"Agrivoltaic", "Control">>, build.observed),
                     "No Data Available", "Error Loading Data")
      [] op = "irradiance-comparison" ->
            callback(op, df, update_irradiance_comparison_try(df),
                     "No Data Available", "Error Loading Data")
      [] op = "correlation-analysis" ->
            callback(op, df, update_corr_heatmap_try(df),
                     "No Data Available", "Error Loading Data")
      [] op = "hourly-irradiance" ->
            callback(op, df,
                     hourly_try(df, TRUE, <<"AG-PV P1/Irr (W/m2)", "PO-PV/Irr (W/m2)">>,
                                <<"Agrivoltaic", "Ground-mounted">>, build.observed),
                     "No Data Available", "Error Loading Data")

\* C15: whatever other chart callbacks ran before it or between its steps,
\* a chart callback returns what it returns when it is the only one called
\* on the table load_data returned.
C15_SameAsAlone ==
    (pc = "serving" /\ result.op \in ChartIds) =>
        result = Call(result.op, load_data(file).df).result

\* the callback of op called on df, and called again on the table that call
\* left, gives the second time what it gave the first time, table and result
SameTwice(op, df) == \A first \in {Call(op, df)} : Call(op, first.df) = first

\* C16: every chart callback is idempotent on every table it can be called
\* on (the table of any state in which its chart is on the page): called
\* twice in a row it returns the same result twice, and the second call
\* leaves the table as the first call left it.
C16_Idempotent ==
    pc = "serving" => \A op \in content.slots : SameTwice(op, merged_df)

\* C16 witness: the hourly temperature chart has added Hour to a table whose
\* file has none and returned a chart, and a second call changes nothing
C16_Witness ==
    /\ pc = "serving"
    /\ result.op = "hourly-temperature"
    /\ result.kind = "chart"
    /\ result.rows # <<>>
    /\ HasColumn(merged_df, "Hour")
    /\ \A i \in 1..Len(file.columns) : file.columns[i] # "Hour"
    /\ Call("hourly-temperature", merged_df) = [df |-> merged_df, result |-> result]

\* the columns a comparison chart selects
ComparisonColumns(op) ==
    CASE op = "temperature-comparison" ->
            {"AG-PV P1/T (oC)", "AG-SS P1/T (oC)", "AO-TI P2/T (oC)", "AO-SS P1/T (oC)"}
      [] op = "humidity-comparison" ->
            {"AG-SS P1/RH (%)", "AO-TI P2/RH (%)", "AO-SS P1/RH (%)"}
      [] op = "soil-moisture-comparison" -> {"AG-SS P1/RH (%)", "AO-SS P1/RH (%)"}
      [] OTHER -> {}

\* the aggregation of op over df has no row: the columns of a comparison
\* hold no value at all, or no column is an irradiance column
EmptyAggregation(op, df) ==
    \/ /\ ComparisonColumns(op) # {}
       /\ \A c \in ComparisonColumns(op) :
             HasColumn(df, c) /\ \A r \in 1..Len(df.rows) : IsNull(Column(df, c)[r])
    \/ /\ op = "irradiance-comparison"
       /\ \A i \in 1..Len(df.columns) :
             ~(Contains(Chars(df.columns[i]), Chars("Irr"))
               /\ \E pt \in {"AG-PV", "AO-TI", "AO-SS", "PO-PV", "AG-SS"} :
                     Contains(Chars(df.columns[i]), Chars(pt)))

\* C17: on a table that is not empty, a chart callback whose aggregation
\* has no row returns the chart with no row bound to it, and a callback
\* whose selection fails returns its error placeholder; in neither case
\* does an error leave the callback.
C17_EmptyResultPlaceholder ==
    (pc = "serving" /\ ~IsEmpty(merged_df) /\ result.op \in ChartIds) =>
        /\ result.kind \in {"chart", "error"}
        /\ EmptyAggregation(result.op, merged_df) =>
              (result.kind = "chart" /\ result.rows = <<>> /\ result.printed = "")
        /\ result.kind = "error" =>
              /\ result.rows = <<>>
              /\ result.name = IF result.op = "summary-statistics"
                               THEN "Error loading data" ELSE "Error Loading Data"

\* C17 witness: the soil moisture comparison on a table with rows and its
\* two columns, none of them with a value: a chart with no row
C17_Witness ==
    /\ pc = "serving"
    /\ Len(merged_df.rows) > 0
    /\ result.op = "soil-moisture-comparison"
    /\ EmptyAggregation("soil-moisture-comparison", merged_df)
    /\ result.kind = "chart"
    /\ result.rows = <<>>

-----------------------------------------------------------------------------
(* Properties of the nutrition dashboard's filters (SpecNutrition).        *)

\* the bars of a figure's first trace as (label, rate) pairs
Bars(traces, labels, rates) ==
    {<<traces[1][labels][i].s, traces[1][rates][i]>> : i \in 1..Len(traces[1][labels])}

\* C18: the province chart returned for region 'all' has one bar for each of
\* the five provinces, and the chart returned for a province has exactly
\* one bar, that province's, with that province's stunting rate.
C18_RegionNarrowsProvinces ==
    (pc = "nutrimap" /\ figures["province-chart"].traces # <<>>) =>
        /\ Len(figures["province-chart"].traces) = 1
        /\ Len(figures["province-chart"].traces[1].x)
              = Cardinality(Bars(figures["province-chart"].traces, "x", "y"))
        /\ figures["province-chart"].arg = Str("all") =>
              Bars(figures["province-chart"].traces, "x", "y")
                  = {<<"Eastern", Frac(382, 10)>>, <<"Western", Frac(351, 10)>>,
                     <<"Southern", Frac(368, 10)>>, <<"Northern", Frac(335, 10)>>,
                     <<"Kigali", Frac(289, 10)>>}
        /\ figures["province-chart"].arg # Str("all") =>
              \E i \in 1..Len(provinces_data) :
                  /\ provinces_data[i].Province = figures["province-chart"].arg.s
                  /\ Bars(figures["province-chart"].traces, "x", "y")
                        = {<<provinces_data[i].Province, provinces_data[i].Stunting_Rate>>}

\* C18 witness: the chart returned for Kigali, after the chart for all
\* regions had been asked for, is Kigali's one bar
C18_Witness ==
    /\ pc = "nutrimap"
    /\ region_filter = "Kigali"
    /\ figures["province-chart"].arg = Str("Kigali")
    /\ figures["province-chart"].traces[1].x = <<Str("Kigali")>>
    /\ figures["province-chart"].traces[1].y = <<Frac(289, 10)>>
    /\ figures["districts-chart"].arg = Str("all")

\* the (year, value) points of all the traces of a figure
Points(traces) ==
    UNION {{<<traces[t].x[i], traces[t].y[i]>> : i \in 1..Len(traces[t].x)} :
              t \in 1..Len(traces)}

\* C19: the points of the trend chart depend on the selected year: the chart
\* returned for a year differs in its points from the chart it replaces,
\* which was returned for another year.
C19_YearNarrowsTrend ==
    [][(/\ figures["trend-chart"].traces # <<>>
        /\ figures'["trend-chart"].arg # figures["trend-chart"].arg)
          => Points(figures'["trend-chart"].traces) # Points(figures["trend-chart"].traces)]_vars

\* C20: the districts chart returned for 'all' shows every high-risk
\* district, and the chart returned for a province shows only districts of
\* that province: it has no district in common with the chart it replaces
\* when that was returned for another province.
C20_RegionNarrowsDistricts ==
    [][/\ figures'["districts-chart"].arg = Str("all") =>
             {b[1] : b \in Bars(figures'["districts-chart"].traces, "y", "x")}
                 = {district_data[i].District :
                       i \in {j \in 1..Len(district_data) : district_data[j].Risk_Level = "High"}}
       /\ (/\ figures["districts-chart"].traces # <<>>
           /\ figures["districts-chart"].arg # Str("all")
           /\ figures'["districts-chart"].arg # Str("all")
           /\ figures'["districts-chart"].arg # figures["districts-chart"].arg)
             => {b[1] : b \in Bars(figures'["districts-chart"].traces, "y", "x")}
                   \cap {b[1] : b \in Bars(figures["districts-chart"].traces, "y", "x")} = {}]_vars

-----------------------------------------------------------------------------
(* Months outside the five categories (SpecAgg).                           *)

\* the calendar month of the date texts of the files
MonthOfDate(text) ==
    CASE text = "2023-05-14" -> "May"
      [] text = "2023-06-02" -> "June"
      [] text = "2023-09-21" -> "September"
      [] text = "2023-10-09" -> "October"
      [] OTHER -> ""

\* the cell of row r of the file in column col
FileCell(r, col) ==
    file.rows[r][CHOOSE i \in 1..Len(file.columns) : file.columns[i] = col]

\* the month of row r as the file gives it: its Month entry, or the month
\* of its DATE where the file has no Month column
FileMonth(r) ==
    IF \E i \in 1..Len(file.columns) : file.columns[i] = "Month"
    THEN FileCell(r, "Month").s
    ELSE IF \E i \in 1..Len(file.columns) : file.columns[i] = "DATE"
         THEN MonthOfDate(FileCell(r, "DATE").s)
         ELSE ""

\* the rows of the file in month m that hold a value of the series
MonthContributing(m, series) ==
    {r \in 1..Len(merged_df.rows) :
        FileMonth(r) = m /\ Cell(r, SourceColumn(series)).k = "num"}

\* C21: in the month-grouped charts every group is one of May, June, July,
\* August, October, and the value of a group is the mean of the values of
\* the file's rows of that very month (missing where it has none): a row of
\* any other month makes no sixth group and enters no mean.
C21_OutsideMonthsExcluded ==
    (MeanChart /\ result.op \in MonthlyIds) =>
        \A i \in 1..Len(result.rows) :
            /\ Place(result.rows[i].group) # 0
            /\ \A rows \in {MonthContributing(result.rows[i].group.s, result.rows[i].series)} :
                  IF rows = {} THEN result.rows[i].value = NaN
                  ELSE /\ result.rows[i].value.k = "num"
                       /\ result.rows[i].value.n * Cardinality(rows)
                            = Total(rows, SourceColumn(result.rows[i].series))
                                * result.rows[i].value.d

\* C21 witness: a file with a September row holding 30 and a May row
\* holding 24, and a monthly temperature chart whose May mean is 24 and
\* which has no September group
C21_Witness ==
    /\ MeanChart
    /\ result.op = "monthly-temperature"
    /\ Len(merged_df.rows) = 2
    /\ FileMonth(1) = "September" /\ Cell(1, "AG-PV P3/T (oC)") = Num(30)
    /\ FileMonth(2) = "May" /\ Cell(2, "AG-PV P3/T (oC)") = Num(24)
    /\ \E i \in 1..Len(result.rows) :
          result.rows[i] = [group |-> Str("May"), series |-> "Agrivoltaic", value |-> Num(24)]
    /\ \A i \in 1..Len(result.rows) : result.rows[i].group # Str("September")

-----------------------------------------------------------------------------
(* Coercion while loading (Spec).                                          *)

\* C22, as claimed: a readable file is loaded as its parsed table whatever
\* its date-like columns (DATE, timestamp, Timestamp) hold: an entry that is
\* no date becomes missing in its row, nothing is reported, and every other
\* row and column is retained.
C22_UnparseableBecomesMissing ==
    (result.op = "load_data" /\ file.status = "ok") =>
        (ParsedTable(merged_df, file) /\ result.printed = "")

-----------------------------------------------------------------------------
(* The plot/measurement-pair grouping of the environmental chart (Spec).   *)

\* the tag of the earliest rule of which a substring occurs in the text
TagOf(rules, text) ==
    IF Matching(rules, text) = {} THEN "Other"
    ELSE rules[CHOOSE i \in Matching(rules, text) :
                   \A j \in Matching(rules, text) : i <= j].tag

\* the (plot type, measurement type) pair of the table's i-th column
PairOf(i) ==
    <<TagOf(PlotRules, Chars(merged_df.columns[i])),
      TagOf(SensorRules, Chars(merged_df.columns[i]))>>

\* the positions of the table's sensor columns: every column but DATE, TIME, Month
SensorPositions ==
    {i \in 1..Len(merged_df.columns) : merged_df.columns[i] \notin {"DATE", "TIME", "Month"}}

\* the cells (row, column) of a set of columns that hold a number
Values(cols) ==
    {rc \in (1..Len(merged_df.rows)) \X cols : merged_df.rows[rc[1]][rc[2]].k = "num"}

RECURSIVE SumAt(_)
\* the sum of a set of cells that hold a number
SumAt(cells) ==
    IF cells = {} THEN 0
    ELSE LET rc == CHOOSE q \in cells : TRUE
         IN  merged_df.rows[rc[1]][rc[2]].n + SumAt(cells \ {rc})

\* the value is the mean of the numbers of a set of columns
IsMeanOf(value, cols) ==
    \A cells \in {Values(cols)} :
        IF cells = {} THEN value = NaN
        ELSE value.k = "num" /\ value.n * Cardinality(cells) = SumAt(cells) * value.d

\* the last call was the environmental chart and it returned a chart
EnvironmentalChart ==
    result.op = "environmental-conditions" /\ result.kind = "chart"

\* C23, as claimed: wherever a sensor column of an Agrivoltaic, Control or
\* Ground PV plot sits in the table's column order, its values are in the
\* environmental chart: the chart has the group of the column's
\* (plot type, measurement type) pair, and the group's value is the mean of
\* the values of all columns of that pair.
C23_EveryColumnInItsGroup ==
    EnvironmentalChart =>
        \A i \in SensorPositions :
            (PairOf(i)[1] \in {"Agrivoltaic", "Control", "Ground PV"} /\ Values({i}) # {}) =>
                \E k \in 1..Len(result.rows) :
                    /\ result.rows[k].series = PairOf(i)[1]
                    /\ result.rows[k].group = Str(PairOf(i)[2])
                    /\ IsMeanOf(result.rows[k].value,
                                {j \in SensorPositions : PairOf(j) = PairOf(i)})

-----------------------------------------------------------------------------
(* The labels of the series (Spec).                                        *)

\* the temperature column a series label of the hour and month charts stands for
TemperatureSource(series) ==
    CASE series = "Agrivoltaic" -> "AG-PV P3/T (oC)"
      [] series = "Control" -> "AO-TI P2/T (oC)"
      [] series = "Ground-mounted" -> "PO-PV/T (oC)"
      [] OTHER -> ""

\* the columns a comparison chart takes as Shaded
ShadedColumns(op) ==
    IF op = "temperature-comparison" THEN {"AG-PV P1/T (oC)", "AG-SS P1/T (oC)"}
    ELSE {"AG-SS P1/RH (%)"}

\* the values of a column of the table that are not missing, in row order
ValuesOf(col) ==
    LET NotNull(c) == ~IsNull(c)
    IN  SelectSeq([r \in 1..Len(merged_df.rows) |-> Cell(r, col)], NotNull)

\* the rows of the last result that carry a sensor's name, in order
RowsNamed(col) ==
    LET Named(row) == row.group = Str(col)
    IN  SelectSeq(result.rows, Named)

\* C24: whatever the order of the table's columns, in the hourly and monthly
\* temperature charts the series Agrivoltaic holds the means of
\* 'AG-PV P3/T (oC)', Control those of 'AO-TI P2/T (oC)' and Ground-mounted
\* those of 'PO-PV/T (oC)'; in the comparison charts every value of a Shaded
\* column is labelled 'Shaded (AG)' and every value of a Control column
\* 'Control (AO)', also where two columns share a label.
C24_StableLabels ==
    /\ (MeanChart /\ result.op \in {"hourly-temperature", "monthly-temperature"}) =>
          \A k \in 1..Len(result.rows) :
              /\ TemperatureSource(result.rows[k].series) # ""
              /\ \A rows \in {{r \in GroupRows(result.rows[k].group) :
                                 Cell(r, TemperatureSource(result.rows[k].series)).k = "num"}} :
                    IF rows = {} THEN result.rows[k].value = NaN
                    ELSE /\ result.rows[k].value.k = "num"
                         /\ result.rows[k].value.n * Cardinality(rows)
                              = Total(rows, TemperatureSource(result.rows[k].series))
                                  * result.rows[k].value.d
    /\ (result.kind = "chart" /\ ComparisonColumns(result.op) # {}) =>
          /\ \A k \in 1..Len(result.rows) :
                /\ result.rows[k].group.s \in ComparisonColumns(result.op)
                /\ result.rows[k].series =
                      IF result.rows[k].group.s \in ShadedColumns(result.op)
                      THEN "Shaded (AG)" ELSE "Control (AO)"
          /\ \A c \in ComparisonColumns(result.op) :
                [k \in 1..Len(RowsNamed(c)) |-> RowsNamed(c)[k].value] = ValuesOf(c)

\* C24 witness: a table whose first column is 'PO-PV/T (oC)' and whose last
\* is 'AG-PV P3/T (oC)', and an hourly temperature chart with 30 under
\* Ground-mounted and 24 under Agrivoltaic
C24_Witness ==
    /\ MeanChart
    /\ result.op = "hourly-temperature"
    /\ merged_df.columns[1] = "PO-PV/T (oC)"
    /\ \E i, j \in 1..Len(result.rows) :
          /\ result.rows[i] = [group |-> Num(5), series |-> "Ground-mounted", value |-> Num(30)]
          /\ result.rows[j] = [group |-> Num(5), series |-> "Agrivoltaic", value |-> Num(24)]

-----------------------------------------------------------------------------
(* The precedence of the rainfall chart (Spec).                            *)

\* the columns whose name holds 'rain' or 'p (mm)', whatever the case, in order
RainColumns ==
    LET RainLike(c) == \/ Contains(lower(Chars(c)), <<"r", "a", "i", "n">>)
                       \/ Contains(lower(Chars(c)), <<"p", " ", "(", "m", "m", ")">>)
    IN  SelectSeq(merged_df.columns, RainLike)

\* the table's timestamp column (timestamp, or else Timestamp), "" if it has none
TimeColumn ==
    IF HasColumn(merged_df, "timestamp") THEN "timestamp"
    ELSE IF HasColumn(merged_df, "Timestamp") THEN "Timestamp"
    ELSE ""

\* the calendar month of row r, as the number yyyymm
PeriodOf(r) ==
    Fields(Cell(r, TimeColumn).s).yy * 100 + Fields(Cell(r, TimeColumn).s).mo

\* the rows of calendar month m that hold a number in column col
PeriodContributing(m, col) ==
    {r \in 1..Len(merged_df.rows) :
        Cell(r, TimeColumn).k = "dt" /\ PeriodOf(r) = m /\ Cell(r, col).k = "num"}

-----------------------------------------------------------------------------
(* The high-risk districts chart (SpecNutrition).                          *)

\* the districts of district_data whose Risk_Level is 'High'
HighRisk == {i \in 1..Len(district_data) : district_data[i].Risk_Level = "High"}

\* rate a is above the whole number b
Above(a, b) == a.n > b * a.d

\* the bars of trace t are the high-risk districts, one bar each, by rising
\* rate, all above 35, each in the colour of its rate
HighRiskBars(t) ==
    /\ Len(t.x) = Len(t.y) /\ Len(t.marker_color) = Len(t.y)
    /\ Len(t.y) = Cardinality(HighRisk)
    /\ {t.y[i].s : i \in 1..Len(t.y)} = {district_data[d].District : d \in HighRisk}
    /\ \A i \in 1..Len(t.y) :
          /\ \E d \in HighRisk :
                district_data[d].District = t.y[i].s /\ district_data[d].Stunting_Rate = t.x[i]
          /\ Above(t.x[i], 35)
          /\ t.marker_color[i] = (IF Above(t.x[i], 39) THEN "#F56565"
                                  ELSE IF Above(t.x[i], 37) THEN "#ED8936" ELSE "#ECC94B")
    /\ \A i, j \in 1..Len(t.x) : i < j => t.x[i].n * t.x[j].d <= t.x[j].n * t.x[i].d

\* C26: the districts chart shows exactly the districts whose Risk_Level is
\* 'High', one bar each, ordered by ascending stunting rate; every rate
\* shown is above 35, as the caption says; a bar is red above 39, orange
\* above 37 and yellow otherwise.
C26_HighRiskDistricts ==
    (pc = "nutrimap" /\ figures["districts-chart"].traces # <<>>) =>
        /\ Len(figures["districts-chart"].traces) = 1
        /\ HighRiskBars(figures["districts-chart"].traces[1])

\* C26 witness: the chart returned, from Kamonyi (36.5, yellow) up to
\* Bugesera (41.2, red), without Rwamagana (34.5, Medium)
C26_Witness ==
    /\ pc = "nutrimap"
    /\ figures["districts-chart"].traces # <<>>
    /\ figures["districts-chart"].traces[1].y[1] = Str("Kamonyi")
    /\ figures["districts-chart"].traces[1].marker_color[1] = "#ECC94B"
    /\ figures["districts-chart"].traces[1].y[11] = Str("Bugesera")
    /\ figures["districts-chart"].traces[1].marker_color[11] = "#F56565"
    /\ \A i \in 1..11 : figures["districts-chart"].traces[1].y[i] # Str("Rwamagana")

-----------------------------------------------------------------------------
(* Independence of the callbacks from what ran before them (Spec).         *)

\* C27, as claimed: in every state the process can be in, whatever views
\* were selected and whatever callbacks ran before, each chart callback
\* returns on the table as it is now the chart it returns on the table as
\* load_data returned it.
C27_HistoryIndependent ==
    pc = "serving" =>
        \A op \in ChartIds :
            Call(op, merged_df).result = Call(op, load_data(file).df).result

-----------------------------------------------------------------------------
(* The table after a callback that failed (Spec).                          *)

\* the step is a chart callback that returns its error placeholder
FailingCall == result'.kind = "error" /\ result'.op \in ChartIds

-----------------------------------------------------------------------------
(* The plot types of the environmental chart (Spec).                       *)

\* the sensor columns of a (plot type, measurement type) pair
ColumnsOfPair(plot, sensor) == {i \in SensorPositions : PairOf(i) = <<plot, sensor>>}

\* C29: every group of the environmental chart has the plot type
\* Agrivoltaic, Control or Ground PV, and its value is the mean of the
\* values of columns of its own (plot type, measurement type) pair and of
\* no other column: no value of a Weather Station or Other column (Hour
\* among them) is shown or enters a mean.
C29_OnlyPlotGroups ==
    EnvironmentalChart =>
        \A k \in 1..Len(result.rows) :
            /\ result.rows[k].series \in {"Agrivoltaic", "Control", "Ground PV"}
            /\ \E cols \in SUBSET ColumnsOfPair(result.rows[k].series, result.rows[k].group.s) :
                  cols # {} /\ IsMeanOf(result.rows[k].value, cols)

\* C29 witness: the environmental chart of a table to which the hourly
\* temperature chart has added Hour (classified Other, holding 5): it has
\* the Control temperature group with the mean 26 and no group Other
C29_Witness ==
    /\ EnvironmentalChart
    /\ file.columns = <<"DATE", "TIME", "Month", "AG-PV P3/T (oC)", "AO-TI P2/T (oC)",
                        "PO-PV/T (oC)">>
    /\ HasColumn(merged_df, "Hour")
    /\ Len(merged_df.rows) = 1
    /\ Cell(1, "Hour") = Num(5)
    /\ PairOf(ColIndex(merged_df, "Hour")) = <<"Other", "Other">>
    /\ \E k \in 1..Len(result.rows) :
          result.rows[k] = [group |-> Str("Temperature"), series |-> "Control",
                            value |-> Num(26)]
    /\ \A k \in 1..Len(result.rows) : result.rows[k].series # "Other"

-----------------------------------------------------------------------------
(* Totality of the view router (Spec).                                     *)

\* C30: once main-tabs has fired, whatever its value, the page holds the
\* content of one of the six views: the view of the value when it is one of
\* overview, executive, temperature, environment, energy, finals, and the
\* overview for any other value or none; and it holds that view's charts.
C30_RouterTotal ==
    (pc = "serving" /\ result.op \notin {"", "load_data"}) =>
        /\ content.view = (IF tab \in {"overview", "executive", "temperature", "environment",
                                       "energy", "finals"}
                           THEN tab ELSE "overview")
        /\ content.slots = SlotsOfView(content.view)

\* C30 witness: main-tabs has fired without a value of the six, and the
\* page holds the overview
C30_Witness ==
    /\ pc = "serving"
    /\ result.op = "update_tab_content"
    /\ tab = "none"
    /\ content = create_overview_content

=============================================================================
